---- MODULE Spec2Model ----
(***************************************************************************)
(* Content-line generation engine of ical-syntax: the FoldingWriter, the   *)
(* charset-validating writers, the TEXT escaping writer and the            *)
(* ContentLine state machine.  Text is modelled as sequences of octets     *)
(* (0..255) that are valid UTF-8, as Rust's &str guarantees.               *)
(***************************************************************************)
EXTENDS Integers, Sequences, FiniteSets, TLC

VARIABLES
    out,            \* the octets the output sink has received
    rem_line_len,   \* FoldingWriter.rem_line_len
    passed_eol,     \* FoldingWriter.passed_eol
    state,          \* ContentLine.state
    cur,            \* the field writer currently borrowed from the line
    first_value,    \* ValueTupleWriter.first_value
    alive,          \* the line / folding writer has not been consumed or dropped
    panicked,       \* an assertion failed
    nwrites,        \* write_str calls made on the writer or on the line's field writers
    input,          \* the text given to a writer that is exercised on its own
    sinkFailed,     \* history: the sink has returned an error
    erred,          \* history: some operation has returned the formatting error
    written,        \* history: concatenation of the fragments the FoldingWriter accepted
    last,           \* history: the last operation called, its argument and result
    log             \* history: the operations that returned Ok, in order

vars == <<out, rem_line_len, passed_eol, state, cur, first_value, alive, panicked, nwrites,
          input, sinkFailed, erred, written, last, log>>

----------------------------------------------------------------------------
(* Octets *)

HTAB == 9
LF == 10
CR == 13
SPACE == 32
DQUOTE == 34
COMMA == 44
HYPHEN == 45
COLON == 58
SEMICOLON == 59
EQUALS == 61
BACKSLASH == 92
LOWER_N == 110
DEL == 127

MAX_LINE_LENGTH == 75
CONTINUATION == <<CR, LF, SPACE>>
CRLF == <<CR, LF>>

\* The number of sink writes that succeed before the sink fails; NoFail: it never fails.
NoFail == 0 - 1

\* n copies of the text s
Rep(s, n) == [i \in 1..(n * Len(s)) |-> s[((i - 1) % Len(s)) + 1]]

RECURSIVE Concat(_)
Concat(ss) == IF ss = <<>> THEN <<>> ELSE Head(ss) \o Concat(Tail(ss))

\* b & 0xc0 == 0x80
IsContinuationByte(x) == x >= 128 /\ x < 192

Dec(k) == IF k = NoFail THEN NoFail ELSE k - 1

----------------------------------------------------------------------------
(* FoldingWriter *)

\* b.iter().any(|&x| x == 0x7f || (x < 0x20 && x != b'\t'))
HasControlNoTabAccepted(s) == \E i \in 1..Len(s) : s[i] = 127 \/ s[i] < 32
HasControl(s) == \E i \in 1..Len(s) : s[i] = 127 \/ (s[i] < 32 /\ s[i] # HTAB)

\* while b[end] & 0xc0 == 0x80 { end -= 1 }  (end is a 0-based index into b)
ScanBackNone(b, end) == end
ScanBackEager(b, end) == IF end > 0 /\ ~IsContinuationByte(b[end]) THEN end - 1 ELSE end
RECURSIVE ScanBackToAscii(_, _)
ScanBackToAscii(b, end) ==
    IF end > 0 /\ b[end + 1] >= 128 THEN ScanBackToAscii(b, end - 1) ELSE end
RECURSIVE ScanBack(_, _)
ScanBack(b, end) == IF IsContinuationByte(b[end + 1]) THEN ScanBack(b, end - 1) ELSE end

\* self.rem_line_len = MAX_LINE_LENGTH - 1 after a continuation sequence
BudgetAfterContinuationFull == MAX_LINE_LENGTH
BudgetAfterContinuationOne == MAX_LINE_LENGTH - 74
BudgetAfterContinuation == MAX_LINE_LENGTH - 1

\* self.rem_line_len -= b.len() as u32, before the final write
BudgetAfterWriteKept(rem, n) == rem
BudgetAfterWrite(rem, n) == rem - n

\* b = &b[end..]
RestSkipsOne(b, end) == SubSeq(b, end + 2, Len(b))
Rest(b, end) == SubSeq(b, end + 1, Len(b))

\* The folding loop and the final write of write_str.  k sink writes succeed
\* before the sink fails.  Result: res, the sink contents, rem_line_len, the
\* remaining k and the largest number of decrements of one backward scan.
RECURSIVE FoldLoop(_, _, _, _, _)
FoldLoop(b, rem, acc, k, sc) ==
    IF Len(b) > rem
    THEN LET end == ScanBack(b, rem)
             sc2 == IF rem - end > sc THEN rem - end ELSE sc
         IN  IF k = 0
             THEN [res |-> "err", out |-> acc, rem |-> rem, k |-> NoFail, scan |-> sc2]
             ELSE IF Dec(k) = 0
             THEN [res |-> "err", out |-> acc \o SubSeq(b, 1, end), rem |-> rem,
                   k |-> NoFail, scan |-> sc2]
             ELSE FoldLoop(Rest(b, end), BudgetAfterContinuation,
                           acc \o SubSeq(b, 1, end) \o CONTINUATION, Dec(Dec(k)), sc2)
    ELSE IF k = 0
         THEN [res |-> "err", out |-> acc, rem |-> BudgetAfterWrite(rem, Len(b)),
               k |-> NoFail, scan |-> sc]
         ELSE [res |-> "ok", out |-> acc \o b, rem |-> BudgetAfterWrite(rem, Len(b)),
               k |-> Dec(k), scan |-> sc]

write_str_checked_as_written(s, rem, acc, k) ==
    IF HasControl(s)
    THEN LET bad == CHOOSE i \in 1..Len(s) :
                        HasControl(SubSeq(s, 1, i)) /\ ~HasControl(SubSeq(s, 1, i - 1))
         IN  [FoldLoop(SubSeq(s, 1, bad - 1), rem, acc, k, 0) EXCEPT !.res = "err"]
    ELSE FoldLoop(s, rem, acc, k, 0)
write_str(s, rem, acc, k) ==
    IF HasControl(s)
    THEN [res |-> "err", out |-> acc, rem |-> rem, k |-> k, scan |-> 0]
    ELSE FoldLoop(s, rem, acc, k, 0)

\* A sequence of write_str calls on the FoldingWriter, abandoned at the first
\* error (the `?` of the callers).  taken: the concatenation of the fragments
\* for which write_str returned Ok.
RECURSIVE WriteAll(_, _, _, _)
WriteAll(frags, rem, acc, k) ==
    IF frags = <<>>
    THEN [res |-> "ok", out |-> acc, rem |-> rem, k |-> k, scan |-> 0, taken |-> <<>>]
    ELSE LET r == write_str(Head(frags), rem, acc, k)
         IN  IF r.res = "err"
             THEN [res |-> "err", out |-> r.out, rem |-> r.rem, k |-> r.k,
                   scan |-> r.scan, taken |-> <<>>]
             ELSE LET r2 == WriteAll(Tail(frags), r.rem, r.out, r.k)
                  IN  [r2 EXCEPT !.taken = Head(frags) \o r2.taken,
                                 !.scan = IF r.scan > r2.scan THEN r.scan ELSE r2.scan]

\* FoldingWriter::eol(mut self) sets passed_eol before it writes CRLF to the sink
eol_passed_eol == TRUE

\* eol(self) takes the writer by value: it does not exist afterwards
alive_after_eol_borrowed == TRUE
alive_after_eol == FALSE

\* Drop for FoldingWriter: assert!(self.passed_eol)
DropPanicsNever(pe) == FALSE
DropPanics(pe) == ~pe

----------------------------------------------------------------------------
(* Charset-validating writers: the fragments forwarded to the inner writer *)

IsAsciiAlphanumeric(x) == (x >= 48 /\ x <= 57) \/ (x >= 65 /\ x <= 90) \/ (x >= 97 /\ x <= 122)

Rejected == [ok |-> FALSE, frags |-> <<>>]
Forward(fs) == [ok |-> TRUE, frags |-> fs]

NameWriter_write_str_underscore(s) ==
    IF \A i \in 1..Len(s) : IsAsciiAlphanumeric(s[i]) \/ s[i] = HYPHEN \/ s[i] = 95
    THEN Forward(<<s>>) ELSE Rejected
NameWriter_write_str(s) ==
    IF \A i \in 1..Len(s) : IsAsciiAlphanumeric(s[i]) \/ s[i] = HYPHEN
    THEN Forward(<<s>>) ELSE Rejected

QuotedStringWriter_write_str_any_ascii(s) ==
    IF \A i \in 1..Len(s) : s[i] = HTAB \/ (s[i] >= 32 /\ s[i] <= 126) \/ s[i] >= 128
    THEN Forward(<<s>>) ELSE Rejected
QuotedStringWriter_write_str(s) ==
    IF \A i \in 1..Len(s) :
          s[i] = HTAB \/ (s[i] >= 32 /\ s[i] <= 126 /\ s[i] # DQUOTE) \/ s[i] >= 128
    THEN Forward(<<s>>) ELSE Rejected

ParamtextWriter_write_str_colon(s) ==
    IF \A i \in 1..Len(s) :
          \/ s[i] = HTAB
          \/ (s[i] >= 32 /\ s[i] <= 126 /\ s[i] # DQUOTE /\ s[i] # SEMICOLON /\ s[i] # COMMA)
          \/ s[i] >= 128
    THEN Forward(<<s>>) ELSE Rejected
ParamtextWriter_write_str(s) ==
    IF \A i \in 1..Len(s) :
          \/ s[i] = HTAB
          \/ (s[i] >= 32 /\ s[i] <= 126 /\ s[i] # DQUOTE /\ s[i] # SEMICOLON
                /\ s[i] # COLON /\ s[i] # COMMA)
          \/ s[i] >= 128
    THEN Forward(<<s>>) ELSE Rejected

----------------------------------------------------------------------------
(* TextWriter *)

\* s.find(['\\', '\n', ';', ',']): 1-based index of the first match, 0 for None
IsSeparatorNoBackslash(x) == x \in {LF, SEMICOLON, COMMA}
IsSeparatorNoComma(x) == x \in {BACKSLASH, LF, SEMICOLON}
IsSeparator(x) == x \in {BACKSLASH, LF, SEMICOLON, COMMA}

RECURSIVE Find(_, _)
Find(s, i) == IF i > Len(s) THEN 0 ELSE IF IsSeparator(s[i]) THEN i ELSE Find(s, i + 1)

\* if separator == '\n' { 'n' } else { separator }
EscapeCharNoNewline(c) == c
EscapeChar(c) == IF c = LF THEN LOWER_N ELSE c

\* The write_str calls TextWriter makes on its inner writer: for every match
\* write!(inner, "{}\\{}", head, c) writes head, the backslash and the
\* character; the rest without a match is written once.
RECURSIVE TextWriterFrags(_)
TextWriterFrags(s) ==
    IF s = <<>> THEN <<>>
    ELSE LET idx == Find(s, 1)
         IN  IF idx = 0 THEN <<s>>
             ELSE <<SubSeq(s, 1, idx - 1), <<BACKSLASH>>, <<EscapeChar(s[idx])>> >>
                  \o TextWriterFrags(SubSeq(s, idx + 1, Len(s)))

TextWriter_write_str(s) == Forward(TextWriterFrags(s))

----------------------------------------------------------------------------
(* Inputs *)

MaxWrites == 3          \* write_str calls on a bare FoldingWriter

A == <<97>>
U2 == <<195, 169>>              \* U+00E9
U3 == <<226, 130, 172>>         \* U+20AC
U4 == <<240, 159, 164, 143>>    \* U+1F90F

FoldFrags ==
    { <<>>, A, Rep(A, 72), Rep(A, 83), U2, U4, Rep(U3, 26), Rep(U4, 20) \o A,
      <<HTAB>>, <<LF>>, A \o <<DEL>> }

FailChoices == IF sinkFailed THEN {NoFail} ELSE {NoFail, 0, 1, 2}

----------------------------------------------------------------------------
(* History *)

Called(op, arg, res, scan) ==
    /\ last' = [op |-> op, w |-> cur, arg |-> arg, res |-> res, scan |-> scan]
    /\ log' = IF res = "ok" THEN Append(log, [op |-> op, w |-> cur, arg |-> arg]) ELSE log
    /\ erred' = (erred \/ res = "err")
    /\ UNCHANGED input

SinkFailedIn(k, r) == k # NoFail /\ r.k = NoFail

\* the effect of a sequence of write_str calls on the FoldingWriter and its sink
Sink(r, k) ==
    /\ k # NoFail => SinkFailedIn(k, r)
    /\ out' = r.out
    /\ rem_line_len' = r.rem
    /\ written' = written \o r.taken
    /\ sinkFailed' = (sinkFailed \/ SinkFailedIn(k, r))

NoSink == UNCHANGED <<out, rem_line_len, written, sinkFailed>>

----------------------------------------------------------------------------
(* A bare FoldingWriter over a sink *)

\* FoldingWriter::new over an empty sink and ContentLine::new
Fresh ==
    /\ out = <<>>
    /\ rem_line_len = MAX_LINE_LENGTH
    /\ passed_eol = FALSE
    /\ state = "Initial"
    /\ cur = "none"
    /\ first_value = TRUE
    /\ alive = TRUE
    /\ panicked = FALSE
    /\ nwrites = 0
    /\ sinkFailed = FALSE
    /\ erred = FALSE
    /\ written = <<>>
    /\ last = [op |-> "new", w |-> "none", arg |-> <<>>, res |-> "ok", scan |-> 0]
    /\ log = <<>>

Init == Fresh /\ input = <<>>

\* impl Write for FoldingWriter: write_str
FoldingWriter_write_str(s, k) ==
    /\ alive /\ ~panicked
    /\ nwrites < MaxWrites
    /\ nwrites' = nwrites + 1
    /\ LET r == WriteAll(<<s>>, rem_line_len, out, k)
       IN  Sink(r, k) /\ Called("write_str", s, r.res, r.scan)
    /\ UNCHANGED <<passed_eol, state, cur, first_value, alive, panicked>>

\* FoldingWriter::eol(mut self), and the drop of self at its end
FoldingWriter_eol(k) ==
    /\ alive /\ ~panicked
    /\ k \in {NoFail, 0}
    /\ passed_eol' = eol_passed_eol
    /\ out' = IF k = 0 THEN out ELSE out \o CRLF
    /\ sinkFailed' = (sinkFailed \/ k = 0)
    /\ alive' = alive_after_eol
    /\ panicked' = DropPanics(passed_eol')
    /\ Called("eol", <<>>, IF DropPanics(passed_eol') THEN "panic"
                           ELSE IF k = 0 THEN "err" ELSE "ok", 0)
    /\ UNCHANGED <<rem_line_len, state, cur, first_value, nwrites, written>>

\* Drop for FoldingWriter, of a writer that is discarded by its owner
FoldingWriter_drop ==
    /\ alive /\ ~panicked
    /\ alive' = FALSE
    /\ panicked' = DropPanics(passed_eol)
    /\ Called("drop", <<>>, IF DropPanics(passed_eol) THEN "panic" ELSE "ok", 0)
    /\ NoSink
    /\ UNCHANGED <<passed_eol, state, cur, first_value, nwrites>>

NextFold ==
    \/ \E s \in FoldFrags : \E k \in FailChoices : FoldingWriter_write_str(s, k)
    \/ \E k \in FailChoices : FoldingWriter_eol(k)
    \/ FoldingWriter_drop

SpecFold == Init /\ [][NextFold]_vars

----------------------------------------------------------------------------
(* ContentLine over a FoldingWriter it owns *)

MaxFieldWrites == 3     \* write_str calls on the field writers of a content line
MaxParams == 1          \* parameters of a content line
MaxParamValues == 2     \* parameter values of a content line
MaxSlots == 2           \* value slots of a content line

NameFrags == { <<78>>, Rep(<<78>>, 75), <<78, SEMICOLON>> }
ParamNameFrags == { <<80>>, <<80, EQUALS>> }
ParamtextFrags == { <<118>>, <<118, COLON>> }
QuotedFrags == { <<113, COMMA, SEMICOLON, COLON>>, <<DQUOTE>> }
TextFrags == { <<116, SEMICOLON, LF>>, <<116, CR>> }

\* the texts offered to the field writer w of a line in state st
FieldFrags(w, st) ==
    CASE w = "name" -> IF st = "AfterName" THEN NameFrags ELSE ParamNameFrags
      [] w = "paramtext" -> ParamtextFrags
      [] w = "quoted" -> QuotedFrags
      [] w = "text" -> TextFrags
      [] OTHER -> {}

\* the number of successful operations op in the log
Count(op) == Cardinality({i \in 1..Len(log) : log[i].op = op})

\* the number of parameter values begun on the line
ParamValuesBegun ==
    Count("param_value_unquoted_writer") + Count("param_value_quoted_writer")

\* the line is not borrowed by a writer that has a destructor
CanUseLine == alive /\ ~panicked /\ cur # "quoted"

\* a failed assertion
Panic(op) ==
    /\ panicked' = TRUE
    /\ Called(op, <<>>, "panic", 0)
    /\ NoSink
    /\ UNCHANGED <<passed_eol, state, cur, first_value, alive, nwrites>>

\* ContentLine::name_writer: assert_eq!(self.state, State::Initial)
name_writer_validAlways(st) == TRUE
name_writer_valid(st) == st = "Initial"

ContentLine_name_writer ==
    /\ CanUseLine
    /\ IF name_writer_valid(state)
       THEN /\ state' = "AfterName"
            /\ cur' = "name"
            /\ UNCHANGED nwrites
            /\ Called("name_writer", <<>>, "ok", 0)
            /\ NoSink
            /\ UNCHANGED <<passed_eol, first_value, alive, panicked>>
       ELSE Panic("name_writer")

\* ContentLine::param_name_writer: self.inner.write_char(';')
ParamNameSeparatorNone == <<>>
ParamNameSeparator == << <<SEMICOLON>> >>

param_name_writer_valid(st) == st \in {"AfterName", "AfterParamValue"}

ContentLine_param_name_writer(k) ==
    /\ CanUseLine
    /\ IF param_name_writer_valid(state)
       THEN /\ Count("param_name_writer") < MaxParams
            /\ LET r == WriteAll(ParamNameSeparator, rem_line_len, out, k)
               IN  /\ Sink(r, k)
                   /\ state' = "AfterParamName"
                   /\ cur' = IF r.res = "ok" THEN "name" ELSE "none"
                   /\ Called("param_name_writer", <<>>, r.res, r.scan)
            /\ UNCHANGED nwrites
            /\ UNCHANGED <<passed_eol, first_value, alive, panicked>>
       ELSE k = NoFail /\ Panic("param_name_writer")

\* ContentLine::goto_param_value_state
goto_param_value_state_valid(st) == st \in {"AfterParamName", "AfterParamValue"}

\* the separator goto_param_value_state writes
ParamValueSeparatorAlwaysEquals(st) == <<EQUALS>>
ParamValueSeparator(st) == IF st = "AfterParamName" THEN <<EQUALS>> ELSE <<COMMA>>

\* ContentLine::param_value_unquoted_writer and ContentLine::param_value_quoted_writer:
\* goto_param_value_state, then ParamtextWriter::new or QuotedStringWriter::new
ContentLine_param_value_writer(quoted, k) ==
    /\ CanUseLine
    /\ IF goto_param_value_state_valid(state)
       THEN /\ ParamValuesBegun < MaxParamValues
            /\ LET frags == IF quoted THEN <<ParamValueSeparator(state), <<DQUOTE>> >>
                                      ELSE <<ParamValueSeparator(state)>>
                   r == WriteAll(frags, rem_line_len, out, k)
               IN  /\ Sink(r, k)
                   /\ state' = IF Len(r.taken) >= 1 THEN "AfterParamValue" ELSE state
                   /\ cur' = IF r.res = "err" THEN "none"
                             ELSE IF quoted THEN "quoted" ELSE "paramtext"
                   /\ Called(IF quoted THEN "param_value_quoted_writer"
                                       ELSE "param_value_unquoted_writer", <<>>, r.res, r.scan)
            /\ UNCHANGED nwrites
            /\ UNCHANGED <<passed_eol, first_value, alive, panicked>>
       ELSE k = NoFail /\ Panic(IF quoted THEN "param_value_quoted_writer"
                                          ELSE "param_value_unquoted_writer")

\* ContentLine::value_tuple_writer, which begins the value with ContentLine::value_writer
value_writer_valid_after_param_name(st) ==
    st \in {"AfterName", "AfterParamName", "AfterParamValue"}
value_writer_valid(st) == st \in {"AfterName", "AfterParamValue"}

ContentLine_value_tuple_writer(k) ==
    /\ CanUseLine
    /\ IF value_writer_valid(state)
       THEN /\ LET r == WriteAll(<< <<COLON>> >>, rem_line_len, out, k)
               IN  /\ Sink(r, k)
                   /\ state' = "Value"
                   /\ cur' = IF r.res = "ok" THEN "tuple" ELSE "none"
                   /\ first_value' = IF r.res = "ok" THEN TRUE ELSE first_value
                   /\ Called("value_tuple_writer", <<>>, r.res, r.scan)
            /\ UNCHANGED nwrites
            /\ UNCHANGED <<passed_eol, alive, panicked>>
       ELSE k = NoFail /\ Panic("value_tuple_writer")

\* ValueTupleWriter::next_value_writer
ValueTupleWriter_next_value_writer(k) ==
    /\ alive /\ ~panicked
    /\ cur \in {"tuple", "text"}
    /\ Count("next_value_writer") < MaxSlots
    /\ LET r == WriteAll(IF first_value THEN <<>> ELSE << <<SEMICOLON>> >>,
                         rem_line_len, out, k)
       IN  /\ Sink(r, k)
           /\ first_value' = FALSE
           /\ cur' = IF r.res = "ok" THEN "text" ELSE "tuple"
           /\ Called("next_value_writer", <<>>, r.res, r.scan)
    /\ UNCHANGED nwrites
    /\ UNCHANGED <<passed_eol, state, alive, panicked>>

\* write_str on the field writer obtained last: NameWriter, ParamtextWriter,
\* QuotedStringWriter or TextWriter
FieldWriter_write_str(s, k) ==
    /\ alive /\ ~panicked
    /\ cur \in {"name", "paramtext", "quoted", "text"}
    /\ s \in FieldFrags(cur, state)
    /\ nwrites < MaxFieldWrites
    /\ nwrites' = nwrites + 1
    /\ LET v == CASE cur = "name" -> NameWriter_write_str(s)
                  [] cur = "paramtext" -> ParamtextWriter_write_str(s)
                  [] cur = "quoted" -> QuotedStringWriter_write_str(s)
                  [] cur = "text" -> TextWriter_write_str(s)
       IN  IF v.ok
           THEN LET r == WriteAll(v.frags, rem_line_len, out, k)
                IN  Sink(r, k) /\ Called("write_str", s, r.res, r.scan)
           ELSE k = NoFail /\ NoSink /\ Called("write_str", s, "err", 0)
    /\ UNCHANGED <<passed_eol, state, cur, first_value, alive, panicked>>

\* QuotedStringWriter::close(mut self), and the drop of self at its end
QuotedStringWriter_close(k) ==
    /\ alive /\ ~panicked
    /\ cur = "quoted"
    /\ LET r == WriteAll(<< <<DQUOTE>> >>, rem_line_len, out, k)
       IN  /\ Sink(r, k)
           /\ panicked' = (r.res = "err")
           /\ Called("close", <<>>, IF r.res = "err" THEN "panic" ELSE "ok", r.scan)
    /\ cur' = "none"
    /\ UNCHANGED <<passed_eol, state, first_value, alive, nwrites>>

\* Drop for QuotedStringWriter, of a writer that was not closed
QuotedStringWriter_drop ==
    /\ alive /\ ~panicked
    /\ cur = "quoted"
    /\ cur' = "none"
    /\ panicked' = TRUE
    /\ Called("drop_quoted", <<>>, "panic", 0)
    /\ NoSink
    /\ UNCHANGED <<passed_eol, state, first_value, alive, nwrites>>

\* ContentLine::eol(self)
eol_valid(st) == st = "Value"

ContentLine_eol(k) ==
    /\ CanUseLine
    /\ IF eol_valid(state)
       THEN /\ k \in {NoFail, 0}
            /\ passed_eol' = eol_passed_eol
            /\ out' = IF k = 0 THEN out ELSE out \o CRLF
            /\ sinkFailed' = (sinkFailed \/ k = 0)
            /\ alive' = alive_after_eol
            /\ cur' = "none"
            /\ panicked' = DropPanics(passed_eol')
            /\ Called("eol", <<>>, IF DropPanics(passed_eol') THEN "panic"
                                   ELSE IF k = 0 THEN "err" ELSE "ok", 0)
            /\ UNCHANGED <<rem_line_len, state, first_value, nwrites, written>>
       ELSE k = NoFail /\ Panic("eol")

\* a ContentLine that is discarded: its FoldingWriter is dropped
ContentLine_drop ==
    /\ CanUseLine
    /\ alive' = FALSE
    /\ cur' = "none"
    /\ panicked' = DropPanics(passed_eol)
    /\ Called("drop", <<>>, IF DropPanics(passed_eol) THEN "panic" ELSE "ok", 0)
    /\ NoSink
    /\ UNCHANGED <<passed_eol, state, first_value, nwrites>>

\* a content line over a sink that does not fail
Next ==
    \/ ContentLine_name_writer
    \/ ContentLine_param_name_writer(NoFail)
    \/ \E q \in BOOLEAN : ContentLine_param_value_writer(q, NoFail)
    \/ ContentLine_value_tuple_writer(NoFail)
    \/ ValueTupleWriter_next_value_writer(NoFail)
    \/ \E s \in FieldFrags(cur, state) : FieldWriter_write_str(s, NoFail)
    \/ QuotedStringWriter_close(NoFail)
    \/ QuotedStringWriter_drop
    \/ ContentLine_eol(NoFail)
    \/ ContentLine_drop

Spec == Init /\ [][Next]_vars

\* a content line over a sink that may fail once
NextSink ==
    \/ ContentLine_name_writer
    \/ \E k \in FailChoices : ContentLine_param_name_writer(k)
    \/ \E q \in BOOLEAN : \E k \in FailChoices : ContentLine_param_value_writer(q, k)
    \/ \E k \in FailChoices : ContentLine_value_tuple_writer(k)
    \/ \E k \in FailChoices : ValueTupleWriter_next_value_writer(k)
    \/ \E s \in FieldFrags(cur, state) : \E k \in FailChoices : FieldWriter_write_str(s, k)
    \/ \E k \in FailChoices : QuotedStringWriter_close(k)
    \/ QuotedStringWriter_drop
    \/ \E k \in FailChoices : ContentLine_eol(k)
    \/ ContentLine_drop

SpecSink == Init /\ [][NextSink]_vars

----------------------------------------------------------------------------
(* One write_str on a fresh FoldingWriter, for every octet valid UTF-8 can hold *)

\* the second octet of a three-octet and of a four-octet codepoint with lead octet l
Second3(l) == IF l = 224 THEN 160 ELSE 128
Second4(l) == IF l = 240 THEN 144 ELSE 128

ProbeCodepoints ==
    {<<x>> : x \in 0..127}
    \cup {<<l, c>> : l \in 194..223, c \in 128..191}
    \cup {<<l, Second3(l), 128>> : l \in 224..239}
    \cup {<<l, Second4(l), 128, 128>> : l \in 240..244}

ProbeFrags == UNION {{p, A \o p, p \o A} : p \in ProbeCodepoints}

InitBytes == Fresh /\ input \in ProbeFrags

NextBytes == last.op = "new" /\ FoldingWriter_write_str(input, NoFail)

SpecBytes == InitBytes /\ [][NextBytes]_vars

----------------------------------------------------------------------------
(* One write_str on a TextWriter over a String *)

MaxTextLen == 4         \* codepoints of the text given to the TextWriter

TextAlphabet == {<<116>>, <<LOWER_N>>, <<78>>, <<BACKSLASH>>, <<LF>>, <<SEMICOLON>>, <<COMMA>>, U2}

TextInputs ==
    UNION {{Concat(f) : f \in [1..n -> TextAlphabet]} : n \in 0..MaxTextLen}

InitText == Fresh /\ input \in TextInputs

\* impl Write for TextWriter: write_str, with a String as the inner writer
TextWriter_write_str_to_String ==
    /\ last.op = "new"
    /\ out' = out \o Concat(TextWriter_write_str(input).frags)
    /\ Called("text_write_str", input, "ok", 0)
    /\ UNCHANGED <<rem_line_len, passed_eol, state, cur, first_value, alive, panicked,
                   nwrites, sinkFailed, written>>

NextText == TextWriter_write_str_to_String

SpecText == InitText /\ [][NextText]_vars

----------------------------------------------------------------------------
(* A content line as a value: the calls one operation of LineStream, of
   PropertyWriter or of the value composition makes on its ContentLine, in
   sequence.  res is "ok", "err" (the formatting error) or "panic". *)

\* LineStream::content_line: ContentLine::new over the sink
content_line(o) ==
    [out |-> o, rem |-> MAX_LINE_LENGTH, state |-> "Initial", passed_eol |-> FALSE,
     written |-> <<>>, res |-> "ok"]

Failed(l, r) == [l EXCEPT !.res = r]

\* the `?` operator: after Err or a panic the remaining calls of the function
\* are not made, so every call below leaves a line that is not Ok as it is
Ok(l) == l.res = "ok"

\* the line after write_str calls on its FoldingWriter had the effect r
Written(l, r) ==
    [l EXCEPT !.out = r.out, !.rem = r.rem, !.written = l.written \o r.taken, !.res = r.res]

\* write_str calls on the FoldingWriter of the line
inner_write(l, frags) ==
    IF ~Ok(l) THEN l ELSE Written(l, WriteAll(frags, l.rem, l.out, NoFail))

\* write!(w, "{}", fmt) on a validating writer whose verdict is v
field_write(l, v) ==
    IF ~Ok(l) THEN l
    ELSE IF v.ok THEN inner_write(l, v.frags) ELSE Failed(l, "err")

\* ContentLine::name
name(l, s) ==
    IF ~Ok(l) THEN l
    ELSE IF ~name_writer_valid(l.state) THEN Failed(l, "panic")
    ELSE field_write([l EXCEPT !.state = "AfterName"], NameWriter_write_str(s))

\* ContentLine::param_name
param_name(l, s) ==
    IF ~Ok(l) THEN l
    ELSE IF ~param_name_writer_valid(l.state) THEN Failed(l, "panic")
    ELSE field_write(inner_write([l EXCEPT !.state = "AfterParamName"], ParamNameSeparator),
                     NameWriter_write_str(s))

\* self.state = State::AfterParamValue, after the separator was written
AfterParamValue(l) == IF Ok(l) THEN [l EXCEPT !.state = "AfterParamValue"] ELSE l

\* ContentLine::goto_param_value_state
goto_param_value_state(l) ==
    IF ~Ok(l) THEN l
    ELSE IF ~goto_param_value_state_valid(l.state) THEN Failed(l, "panic")
    ELSE AfterParamValue(inner_write(l, <<ParamValueSeparator(l.state)>>))

\* Drop for QuotedStringWriter: assert!(self.is_closed)
QuotedDropPanics(is_closed) == ~is_closed

\* the unquoted branch of AsParamValue<One<Inner>>::write_to
param_value_unquoted(l, s) ==
    field_write(goto_param_value_state(l), ParamtextWriter_write_str(s))

\* the drop of the QuotedStringWriter at the end of write_to, after fmt and
\* close left the line as l
quoted_dropped(l) == IF QuotedDropPanics(Ok(l)) THEN Failed(l, "panic") ELSE l

\* fmt and close on the QuotedStringWriter made, if QuotedStringWriter::new
\* returned one
quoted_written(made, s) ==
    IF ~Ok(made) THEN made
    ELSE quoted_dropped(inner_write(field_write(made, QuotedStringWriter_write_str(s)),
                                    << <<DQUOTE>> >>))

\* the quoted branch of AsParamValue<One<Inner>>::write_to: the writer made by
\* QuotedStringWriter::new is dropped when fmt or close returns the error
param_value_quoted_never_closed(l, s) ==
    field_write(inner_write(goto_param_value_state(l), << <<DQUOTE>> >>),
                QuotedStringWriter_write_str(s))
param_value_quoted(l, s) ==
    quoted_written(inner_write(goto_param_value_state(l), << <<DQUOTE>> >>), s)

\* ContentLine::value_writer
value_writer_past_the_folding_writer(l) ==
    IF ~Ok(l) THEN l
    ELSE IF ~value_writer_valid(l.state) THEN Failed(l, "panic")
    ELSE [l EXCEPT !.state = "Value", !.out = l.out \o <<COLON>>,
                   !.written = l.written \o <<COLON>>]
value_writer(l) ==
    IF ~Ok(l) THEN l
    ELSE IF ~value_writer_valid(l.state) THEN Failed(l, "panic")
    ELSE inner_write([l EXCEPT !.state = "Value"], << <<COLON>> >>)

\* ValueTupleWriter::next_value_writer, then fmt on the TextWriter it returns
next_value_unseparated(l, first, s) == field_write(l, TextWriter_write_str(s))
next_value(l, first, s) ==
    field_write(inner_write(l, IF first THEN <<>> ELSE << <<SEMICOLON>> >>),
                TextWriter_write_str(s))

\* the slots of a tuple, from slot i on
RECURSIVE tuple_slots(_, _, _)
tuple_slots(l, slots, i) ==
    IF i > Len(slots) THEN l
    ELSE tuple_slots(next_value(l, i = 1, slots[i]), slots, i + 1)

\* ContentLine::value
value(l, s) == next_value(value_writer(l), TRUE, s)

\* ContentLine::eol, and the drop of the line at its end
eol(l) ==
    IF ~Ok(l) THEN l
    ELSE IF ~eol_valid(l.state) THEN Failed(l, "panic")
    ELSE [l EXCEPT !.passed_eol = eol_passed_eol, !.out = l.out \o CRLF]

\* the drop of a ContentLine: Drop for FoldingWriter
drop(l) == IF l.res # "panic" /\ DropPanics(l.passed_eol) THEN Failed(l, "panic") ELSE l

----------------------------------------------------------------------------
(* Composite value composition: AsCompositeValueType::write_into *)

VALUE == <<86, 65, 76, 85, 69>>

\* PropertyValueWriter::param(Value, NAME): Value is One<Name>, Name is not QUOTED
PropertyValueWriter_param(l, pname, s) == param_value_unquoted(param_name(l, pname), s)

\* a single value type used as a composite: one slot
write_into_single(l, s) == value(l, s)

\* tuple_value_type!: value_tuple_writer, then every slot in declared order
write_into_tuple(l, slots) == tuple_slots(value_writer(l), slots, 1)

\* ValueTypeChoice::DefaultType of Any2<T0, T1> and of Any3<T0, T1, T2>
DefaultType(types) == types[1]

\* the selector parameter is written when the names differ
NeedsValueParamNever(active, default) == FALSE
NeedsValueParam(active, default) == active # default

\* AsCompositeValueType<Any2<T0, T1>>::write_into
write_into_Any2(l, types, active, s) ==
    value(IF NeedsValueParam(active, DefaultType(types))
          THEN PropertyValueWriter_param(l, VALUE, active) ELSE l,
          s)

\* AsCompositeValueType<Any3<T0, T1, T2>>::write_into, which compares with the
\* default type of Any2<T0, T1>
write_into_Any3(l, types, active, s) ==
    value(IF NeedsValueParam(active, DefaultType(SubSeq(types, 1, 2)))
          THEN PropertyValueWriter_param(l, VALUE, active) ELSE l,
          s)

\* ValueListWriter::next_value_writer, then fmt on the writer it returns: ','
\* between adjacent items, every item through the TextWriter
ValueListWriter_next_value(l, first, s) ==
    field_write(inner_write(l, IF first THEN <<>> ELSE << <<COMMA>> >>),
                TextWriter_write_str(s))

\* the items of a list, from item i on
RECURSIVE list_items(_, _, _)
list_items(l, items, i) ==
    IF i > Len(items) THEN l
    ELSE list_items(ValueListWriter_next_value(l, i = 1, items[i]), items, i + 1)

\* ContentLine::value_list_writer: begins the value
value_list_writer(l) == value_writer(l)

\* AsCompositeValueType<List<VT>>::write_into
write_into_List_lazy(l, types, active, items) ==
    list_items(IF items = <<>> THEN l
               ELSE value_list_writer(IF NeedsValueParam(active, DefaultType(types))
                                      THEN PropertyValueWriter_param(l, VALUE, active)
                                      ELSE l),
               items, 1)
write_into_List(l, types, active, items) ==
    list_items(value_list_writer(IF NeedsValueParam(active, DefaultType(types))
                                 THEN PropertyValueWriter_param(l, VALUE, active) ELSE l),
               items, 1)

\* AsCompositeValueType::write_into for the value v of a property
write_into(l, v) ==
    CASE v.kind = "single" -> write_into_single(l, v.slots[1])
      [] v.kind = "tuple" -> write_into_tuple(l, v.slots)
      [] v.kind = "Any2" -> write_into_Any2(l, v.types, v.active, v.slots[1])
      [] v.kind = "Any3" -> write_into_Any3(l, v.types, v.active, v.slots[1])
      [] v.kind = "List" -> write_into_List(l, v.types, v.active, v.slots)

\* PropertyWriter::value of src/ical-syntax/src/generate/writer.rs: the value
\* is formatted on the FoldingWriter that value_writer returns
generate_value(l, s) == inner_write(value_writer(l), <<s>>)

\* PropertyWriter::value of the tree `tree`
PropertyWriter_value_of(tree, l, v) ==
    IF tree = "generate" THEN generate_value(l, v.slots[1]) ELSE write_into(l, v)

\* AsParamValue<One<_>>::write_to and AsParamValue<SetOf<_>>::write_to: every
\* item in turn, quoted or not
RECURSIVE write_to(_, _, _, _)
write_to(l, quoted, items, i) ==
    IF i > Len(items) THEN l
    ELSE write_to(IF quoted THEN param_value_quoted(l, items[i])
                            ELSE param_value_unquoted(l, items[i]),
                  quoted, items, i + 1)

\* PropertyWriter::param
param(l, pname, quoted, items) == write_to(param_name(l, pname), quoted, items, 1)

----------------------------------------------------------------------------
(* One property line written through LineStream, Writer and PropertyWriter
   over a sink that does not fail *)

MaxItems == 2           \* items of a list value and of a parameter value set
MaxPropParams == 1      \* param calls on one PropertyWriter

\* tuple_value_type! is instantiated for one to four slots
TupleArities == 1..4

T == <<84>>
U == <<85>>
D == <<68>>

LineNames == { <<84>>, <<84, SPACE>> }
PropParamNames == { <<80>>, <<80, EQUALS>> }
SlotTexts == { <<118>>, <<SEMICOLON, COMMA, LF, BACKSLASH>>, <<119, COMMA>>, <<118, DEL>> }
TupleTexts == { <<118>>, <<119, SEMICOLON>> }
ListTexts == { <<118>>, <<119, COMMA>> }

Seqs(S, lo, hi) == UNION {[1..n -> S] : n \in lo..hi}

ParamItems(quoted) ==
    Seqs(IF quoted THEN QuotedFrags ELSE ParamtextFrags, 0, MaxItems)

Elems(s) == {s[i] : i \in 1..Len(s)}

Value(kind, types, active, slots) ==
    [kind |-> kind, types |-> types, active |-> active, slots |-> slots]

Values ==
    {Value("single", <<T>>, T, <<s>>) : s \in SlotTexts}
    \cup UNION {{Value("tuple", <<T>>, T, ss) : ss \in [1..n -> TupleTexts]} : n \in TupleArities}
    \cup UNION {{Value("Any2", ts, a, <<A>>) : a \in Elems(ts)} : ts \in {<<T, U>>, <<U, T>>}}
    \cup UNION {{Value("Any3", ts, a, <<A>>) : a \in Elems(ts)} : ts \in {<<T, U, D>>, <<U, D, T>>}}
    \cup UNION {{Value("List", ts, a, ss) : a \in Elems(ts), ss \in Seqs(ListTexts, 0, MaxItems)}
                  : ts \in {<<T>>, <<T, U>>}}

\* the values a PropertyWriter of the tree `tree` takes
ValuesOf(tree) == IF tree = "generate" THEN {v \in Values : v.kind = "single"} ELSE Values

Trees == {"write", "generate"}

\* LineStream::new over an empty sink: no content line yet
InitWriter ==
    /\ out = <<>>
    /\ rem_line_len = MAX_LINE_LENGTH
    /\ passed_eol = FALSE
    /\ state = "Initial"
    /\ cur = "none"
    /\ first_value = TRUE
    /\ alive = FALSE
    /\ panicked = FALSE
    /\ nwrites = 0
    /\ sinkFailed = FALSE
    /\ erred = FALSE
    /\ written = <<>>
    /\ last = [op |-> "new", w |-> "none", arg |-> <<>>, res |-> "ok", scan |-> 0]
    /\ log = <<>>
    /\ input = <<>>

\* the content line of the PropertyWriter
Line ==
    [out |-> out, rem |-> rem_line_len, state |-> state, passed_eol |-> passed_eol,
     written |-> written, res |-> "ok"]

\* the line and the sink after a call, and what the call returned
Returned(op, arg, l) ==
    /\ out' = l.out
    /\ rem_line_len' = l.rem
    /\ state' = l.state
    /\ passed_eol' = l.passed_eol
    /\ written' = l.written
    /\ panicked' = (l.res = "panic")
    /\ last' = [op |-> op, w |-> "line", arg |-> arg, res |-> l.res, scan |-> 0]
    /\ UNCHANGED <<cur, first_value, input, sinkFailed, erred, log>>

NoLineYet == ~alive /\ ~panicked /\ last.op = "new"

\* LineStream::simple_line(name, value)
LineStream_simple_line(n, s) ==
    /\ NoLineYet
    /\ LET l == eol(value(name(content_line(out), n), s))
       IN  Returned("simple_line", [name |-> n, value |-> Value("single", <<T>>, T, <<s>>)],
                    drop(l))
    /\ UNCHANGED <<alive, nwrites>>

\* Ok(Self { content_line, .. }), or the error with the line dropped
Created(n, l) ==
    /\ Returned("PropertyWriter_new", [name |-> n], IF Ok(l) THEN l ELSE drop(l))
    /\ alive' = Ok(l)

\* PropertyWriter::new: the line is dropped when its name is rejected
PropertyWriter_new(n) ==
    /\ NoLineYet
    /\ Created(n, name(content_line(out), n))
    /\ UNCHANGED nwrites

\* PropertyWriter::param
PropertyWriter_param(pn, quoted, items) ==
    /\ alive /\ ~panicked
    /\ nwrites < MaxPropParams
    /\ nwrites' = nwrites + 1
    /\ Returned("param", [name |-> pn, quoted |-> quoted, items |-> items],
                param(Line, pn, quoted, items))
    /\ UNCHANGED alive

\* PropertyWriter::value
PropertyWriter_value(tree, v) ==
    /\ alive /\ ~panicked
    /\ Returned("value", [tree |-> tree, value |-> v], PropertyWriter_value_of(tree, Line, v))
    /\ UNCHANGED <<alive, nwrites>>

\* PropertyWriter::end(mut self)
PropertyWriter_end ==
    /\ alive /\ ~panicked
    /\ Returned("end", <<>>, drop(eol(Line)))
    /\ alive' = FALSE
    /\ UNCHANGED nwrites

\* a PropertyWriter that is discarded: its content line is dropped
PropertyWriter_drop ==
    /\ alive /\ ~panicked
    /\ Returned("drop", <<>>, drop(Line))
    /\ alive' = FALSE
    /\ UNCHANGED nwrites

\* Writer::simple_property: property(..)?, value(..)?, end()
Writer_simple_property(tree, n, v) ==
    /\ NoLineYet
    /\ LET l == eol(PropertyWriter_value_of(tree, name(content_line(out), n), v))
       IN  Returned("simple_property", [tree |-> tree, name |-> n, value |-> v], drop(l))
    /\ UNCHANGED <<alive, nwrites>>

NextWriter ==
    \/ \E n \in LineNames : \E s \in SlotTexts : LineStream_simple_line(n, s)
    \/ \E n \in LineNames : PropertyWriter_new(n)
    \/ \E pn \in PropParamNames : \E q \in BOOLEAN : \E items \in ParamItems(q) :
          PropertyWriter_param(pn, q, items)
    \/ \E tree \in Trees : \E v \in ValuesOf(tree) : PropertyWriter_value(tree, v)
    \/ PropertyWriter_end
    \/ PropertyWriter_drop
    \/ \E tree \in Trees : \E n \in LineNames : \E v \in ValuesOf(tree) :
          Writer_simple_property(tree, n, v)

SpecWriter == InitWriter /\ [][NextWriter]_vars

----------------------------------------------------------------------------
(* The validating writers over a String, one fragment for every octet valid
   UTF-8 can hold, and the names of a content line *)

MaxValidatedWrites == 2 \* write_str calls on one validating writer

ValidatingWriters == {"name", "paramtext", "quoted", "generate_quoted"}

\* QuotedStringWriter of write/validating_writers.rs and of
\* generate/validating_writers.rs
QuotedKinds == {"quoted", "generate_quoted"}

QText == <<113, COMMA, SEMICOLON, COLON>>

ValidatingInputs == ProbeCodepoints \cup {A \o <<x>> \o A : x \in 0..127}

InitValidating ==
    /\ out = <<>>
    /\ rem_line_len = MAX_LINE_LENGTH
    /\ passed_eol = FALSE
    /\ state = "Initial"
    /\ cur = "none"
    /\ first_value = TRUE
    /\ alive = FALSE
    /\ panicked = FALSE
    /\ nwrites = 0
    /\ sinkFailed = FALSE
    /\ erred = FALSE
    /\ written = <<>>
    /\ last = [op |-> "new", w |-> "none", arg |-> <<>>, res |-> "ok", scan |-> 0]
    /\ log = <<>>
    /\ input \in ValidatingInputs

\* the line is left alone by a writer that has a String of its own
NoLine == UNCHANGED <<rem_line_len, passed_eol, state, first_value, alive, sinkFailed,
                      written>>

\* NameWriter::new, ParamtextWriter::new and QuotedStringWriter::new over an
\* empty String: the quoted writers write the opening DQUOTE
Validating_new(kind) ==
    /\ last.op = "new"
    /\ cur' = kind
    /\ out' = IF kind \in QuotedKinds THEN <<DQUOTE>> ELSE <<>>
    /\ Called("writer_new", kind, "ok", 0)
    /\ NoLine
    /\ UNCHANGED <<panicked, nwrites>>

\* impl Write for NameWriter, ParamtextWriter and QuotedStringWriter
Verdict(kind, s) ==
    CASE kind = "name" -> NameWriter_write_str(s)
      [] kind = "paramtext" -> ParamtextWriter_write_str(s)
      [] kind \in QuotedKinds -> QuotedStringWriter_write_str(s)

\* write_str on the validating writer: the String never fails
Validating_write_str(s) ==
    /\ cur \in ValidatingWriters /\ ~panicked
    /\ nwrites < MaxValidatedWrites
    /\ nwrites' = nwrites + 1
    /\ LET v == Verdict(cur, s)
       IN  /\ out' = IF v.ok THEN out \o Concat(v.frags) ELSE out
           /\ Called("write_str", s, IF v.ok THEN "ok" ELSE "err", 0)
    /\ NoLine
    /\ UNCHANGED <<cur, panicked>>

\* QuotedStringWriter::close(mut self): the closing DQUOTE; in write/ self is
\* dropped at the end with is_closed set, in generate/ the inner writer is
\* returned
Validating_close ==
    /\ cur \in QuotedKinds /\ ~panicked
    /\ out' = out \o <<DQUOTE>>
    /\ cur' = "none"
    /\ panicked' = (cur = "quoted" /\ QuotedDropPanics(TRUE))
    /\ Called("close", <<>>, IF cur = "quoted" /\ QuotedDropPanics(TRUE) THEN "panic" ELSE "ok", 0)
    /\ NoLine
    /\ UNCHANGED nwrites

\* a validating writer that is discarded: only QuotedStringWriter of write/
\* has a Drop
Validating_drop ==
    /\ cur \in ValidatingWriters /\ ~panicked
    /\ cur' = "none"
    /\ panicked' = (cur = "quoted" /\ QuotedDropPanics(FALSE))
    /\ Called("drop", <<>>, IF cur = "quoted" /\ QuotedDropPanics(FALSE) THEN "panic" ELSE "ok", 0)
    /\ UNCHANGED out
    /\ NoLine
    /\ UNCHANGED nwrites

\* ContentLine::name on the content line of a LineStream
ContentLine_name(s) ==
    /\ NoLineYet
    /\ LET l == name(content_line(out), s)
       IN  Returned("name", [name |-> s], l)
    /\ alive' = TRUE
    /\ UNCHANGED nwrites

\* ContentLine::param_name
ContentLine_param_name(s) ==
    /\ alive /\ ~panicked
    /\ last.op = "name"
    /\ Returned("param_name", [name |-> s], param_name(Line, s))
    /\ UNCHANGED <<alive, nwrites>>

\* FoldingWriter::new over an empty String
FoldingWriter_new ==
    /\ last.op = "new" /\ ~alive
    /\ cur' = "folding"
    /\ alive' = TRUE
    /\ Called("writer_new", "folding", "ok", 0)
    /\ NoSink
    /\ UNCHANGED <<passed_eol, state, first_value, panicked, nwrites>>

NextValidating ==
    \/ \E kind \in ValidatingWriters : Validating_new(kind)
    \/ FoldingWriter_new
    \/ cur = "folding" /\ \E s \in {input, QText} : FoldingWriter_write_str(s, NoFail)
    \/ cur = "folding" /\ FoldingWriter_eol(NoFail)
    \/ \E s \in {input, QText} : Validating_write_str(s)
    \/ Validating_close
    \/ Validating_drop
    \/ \E s \in {input, T} : ContentLine_name(s)
    \/ ContentLine_param_name(input)

SpecValidating == InitValidating /\ [][NextValidating]_vars

----------------------------------------------------------------------------
(* A FoldingWriter over a String with some ASCII text on its line, then
   further fragments, then eol *)

MaxAsciiLen == 160      \* octets of the ASCII text written first

BudgetFrags ==
    { <<>>, A, Rep(A, 2), Rep(A, 74), Rep(A, 75), Rep(A, 76), Rep(A, 150),
      U2, U3, U4, A \o U4, Rep(U2, 38), Rep(U3, 25), Rep(U3, 26), Rep(U4, 19), Rep(U4, 38),
      A \o Rep(U4, 19), <<HTAB>> }

InitBudget == Fresh /\ input \in BudgetFrags

\* write_str of an ASCII text on the fresh writer
FoldingWriter_write_ascii(n) ==
    /\ last.op = "new"
    /\ FoldingWriter_write_str(Rep(A, n), NoFail)

\* write_str of the fragment, once or twice
FoldingWriter_write_fragment ==
    /\ nwrites >= 1
    /\ FoldingWriter_write_str(input, NoFail)

NextBudget ==
    \/ \E n \in 0..MaxAsciiLen : FoldingWriter_write_ascii(n)
    \/ FoldingWriter_write_fragment
    \/ nwrites >= 1 /\ FoldingWriter_eol(NoFail)

SpecBudget == InitBudget /\ [][NextBudget]_vars

----------------------------------------------------------------------------
(* FoldingWriter::write_str step by step: the check of the fragment, each
   iteration of the folding loop, and the final write.  input holds the
   pending text b. *)

LoopFrags == BudgetFrags \cup {<<LF>>, Rep(A, 80) \o <<DEL>>}

InitLoop == Fresh /\ input \in LoopFrags

\* the check for control octets at the start of write_str
FoldingWriter_write_str_check ==
    /\ last.op = "write_str" /\ cur = "none"
    /\ cur' = IF HasControl(input) THEN "done" ELSE "loop"
    /\ last' = [op |-> "check", w |-> cur, arg |-> input,
                res |-> IF HasControl(input) THEN "err" ELSE "ok", scan |-> 0]
    /\ erred' = (erred \/ HasControl(input))
    /\ UNCHANGED <<out, rem_line_len, passed_eol, state, first_value, alive, panicked,
                   nwrites, input, sinkFailed, written, log>>

\* one iteration of while b.len() > self.rem_line_len
FoldingWriter_write_str_iteration ==
    /\ cur = "loop"
    /\ Len(input) > rem_line_len
    /\ LET end == ScanBack(input, rem_line_len)
       IN  /\ out' = out \o SubSeq(input, 1, end) \o CONTINUATION
           /\ input' = Rest(input, end)
           /\ last' = [op |-> "fold", w |-> cur, arg |-> SubSeq(input, 1, end),
                       res |-> "ok", scan |-> rem_line_len - end]
           /\ log' = Append(log, [op |-> "fold", w |-> cur, arg |-> SubSeq(input, 1, end)])
           /\ written' = written \o SubSeq(input, 1, end)
    /\ rem_line_len' = BudgetAfterContinuation
    /\ UNCHANGED <<passed_eol, state, cur, first_value, alive, panicked, nwrites,
                   sinkFailed, erred>>

\* the end of the loop and the write of what is left of b
FoldingWriter_write_str_final ==
    /\ cur = "loop"
    /\ ~(Len(input) > rem_line_len)
    /\ rem_line_len' = BudgetAfterWrite(rem_line_len, Len(input))
    /\ out' = out \o input
    /\ written' = written \o input
    /\ input' = <<>>
    /\ cur' = "done"
    /\ last' = [op |-> "write_str", w |-> cur, arg |-> input, res |-> "ok", scan |-> 0]
    /\ log' = Append(log, [op |-> "write_str", w |-> cur, arg |-> input])
    /\ UNCHANGED <<passed_eol, state, first_value, alive, panicked, nwrites,
                   sinkFailed, erred>>

NextLoop ==
    \/ \E n \in 0..MAX_LINE_LENGTH : FoldingWriter_write_ascii(n)
    \/ FoldingWriter_write_str_check
    \/ FoldingWriter_write_str_iteration
    \/ FoldingWriter_write_str_final

SpecLoop == InitLoop /\ [][NextLoop]_vars

\* write_str is one synchronous call: once entered it runs until it returns
SpecLoopFair == SpecLoop /\ WF_vars(NextLoop)

----------------------------------------------------------------------------
(* One ContentLine over a String, used call by call: name, param_name, the
   parameter values, value, eol, in any order the caller chooses *)

MaxLineCalls == 6       \* calls on one content line

LineNameTexts == {T, Rep(T, 67), Rep(T, 74), Rep(T, 75), <<84, SPACE>>, <<>>}

LineParamTexts == {<<118>>, QText}

LineValueTexts == {<<118>>, <<118, COMMA>>}

\* the line and the sink after a call on the line, and what the call returned
LineCalled(op, arg, l) ==
    /\ alive /\ ~panicked
    /\ nwrites < MaxLineCalls
    /\ nwrites' = nwrites + 1
    /\ out' = l.out
    /\ rem_line_len' = l.rem
    /\ state' = l.state
    /\ passed_eol' = l.passed_eol
    /\ written' = l.written
    /\ panicked' = (l.res = "panic")
    /\ erred' = (erred \/ l.res = "err")
    /\ last' = [op |-> op, w |-> "line", arg |-> arg, res |-> l.res, scan |-> 0]
    /\ log' = IF l.res = "ok" THEN Append(log, [op |-> op, w |-> "line", arg |-> arg]) ELSE log
    /\ UNCHANGED <<cur, first_value, input, sinkFailed>>

Line_name(s) == LineCalled("name", s, name(Line, s)) /\ UNCHANGED alive

Line_param_name(s) == LineCalled("param_name", s, param_name(Line, s)) /\ UNCHANGED alive

Line_param_value_unquoted(s) ==
    LineCalled("param_value_unquoted", s, param_value_unquoted(Line, s)) /\ UNCHANGED alive

Line_param_value_quoted(s) ==
    LineCalled("param_value_quoted", s, param_value_quoted(Line, s)) /\ UNCHANGED alive

Line_value(s) == LineCalled("value", s, value(Line, s)) /\ UNCHANGED alive

\* ContentLine::eol(self): the line is consumed and dropped
Line_eol == LineCalled("eol", <<>>, drop(eol(Line))) /\ alive' = alive_after_eol

\* a line that its owner discards
Line_drop == LineCalled("drop", <<>>, drop(Line)) /\ alive' = FALSE

NextLine ==
    \/ \E s \in LineNameTexts : Line_name(s)
    \/ Line_param_name(<<80>>)
    \/ \E s \in LineParamTexts : Line_param_value_unquoted(s)
    \/ \E s \in LineParamTexts : Line_param_value_quoted(s)
    \/ \E s \in LineValueTexts : Line_value(s)
    \/ Line_eol
    \/ Line_drop

SpecLine == Init /\ [][NextLine]_vars

----------------------------------------------------------------------------
(* A Writer over a String: components, nested through the innermost open
   ComponentWriter, and the properties written in them *)

MaxStreamCalls == 6     \* calls on the Writer and its ComponentWriters

BEGIN_COMPONENT == <<66, 69, 71, 73, 78>>
END_COMPONENT_as_begin == <<66, 69, 71, 73, 78>>
END_COMPONENT == <<69, 78, 68>>

\* Component::NAME of ICalObject and of EventC
VCALENDAR == <<86, 67, 65, 76, 69, 78, 68, 65, 82>>
VEVENT == <<86, 69, 86, 69, 78, 84>>

ComponentNames == {VCALENDAR, VEVENT}

PropertyTexts == {<<118>>, VEVENT}

\* LineStream::simple_line on a stream that holds o
simple_line(o, n, s) == drop(eol(value(name(content_line(o), n), s)))

\* the ComponentWriters that are neither ended nor dropped, innermost last,
\* after the first n successful calls
RECURSIVE OpenComponents(_)
OpenComponents(n) ==
    IF n = 0 THEN <<>>
    ELSE LET before == OpenComponents(n - 1)
         IN  CASE log[n].op = "component" -> Append(before, log[n].arg)
               [] log[n].op = "end" -> SubSeq(before, 1, Len(before) - 1)
               [] OTHER -> before

\* the ComponentWriter a call is made on: a ComponentWriter borrows the
\* writer it was made from until it is ended or dropped, so it is the innermost
Innermost == OpenComponents(Len(log))[Len(OpenComponents(Len(log)))]

\* Drop for ComponentWriter: assert!(self.is_closed)
ComponentDropPanics(is_closed) == ~is_closed

\* the stream after a call, and what the call returned
StreamCalled(op, arg, l) ==
    /\ ~panicked
    /\ nwrites < MaxStreamCalls
    /\ nwrites' = nwrites + 1
    /\ out' = l.out
    /\ rem_line_len' = l.rem
    /\ state' = l.state
    /\ passed_eol' = l.passed_eol
    /\ written' = l.written
    /\ panicked' = (l.res = "panic")
    /\ erred' = (erred \/ l.res = "err")
    /\ last' = [op |-> op, w |-> "stream", arg |-> arg, res |-> l.res, scan |-> 0]
    /\ log' = IF l.res = "ok" THEN Append(log, [op |-> op, w |-> "stream", arg |-> arg]) ELSE log
    /\ UNCHANGED <<cur, first_value, alive, input, sinkFailed>>

\* Writer::component, ComponentWriter::new
ComponentWriter_new(c) ==
    StreamCalled("component", c, simple_line(out, BEGIN_COMPONENT, c))

\* ComponentWriter::end(mut self), and the drop of self with is_closed set
ComponentWriter_end ==
    /\ OpenComponents(Len(log)) # <<>>
    /\ LET l == simple_line(out, END_COMPONENT, Innermost)
       IN  StreamCalled("end", Innermost,
                        IF l.res # "panic" /\ ComponentDropPanics(TRUE)
                        THEN Failed(l, "panic") ELSE l)

\* a ComponentWriter that is discarded without end
ComponentWriter_drop ==
    /\ OpenComponents(Len(log)) # <<>>
    /\ StreamCalled("component_drop", Innermost,
                    IF ComponentDropPanics(FALSE)
                    THEN Failed(content_line(out), "panic") ELSE content_line(out))

\* Writer::simple_property of a property with a single value, on the Writer
\* or through the Deref of the innermost ComponentWriter
Component_simple_property(n, s) ==
    LET v == Value("single", <<T>>, T, <<s>>)
        l == eol(PropertyWriter_value_of("write", name(content_line(out), n), v))
    IN  StreamCalled("simple_property", n \o <<COLON>> \o s, drop(l))

NextComponents ==
    \/ \E c \in ComponentNames : ComponentWriter_new(c)
    \/ ComponentWriter_end
    \/ ComponentWriter_drop
    \/ \E s \in PropertyTexts : Component_simple_property(T, s)

SpecComponents == InitWriter /\ [][NextComponents]_vars

----------------------------------------------------------------------------
(* The value part of one property line: a tuple or a list whose slots hold
   the characters that the escaping is about *)

MaxValueSlots == 3      \* slots of a tuple and items of a list

ValueSlotTexts ==
    { <<>>, <<118>>, <<SEMICOLON>>, <<COMMA>>, <<BACKSLASH>>, <<118, BACKSLASH>>,
      <<BACKSLASH, SEMICOLON>>, <<COMMA, SEMICOLON, LF>> }

\* PropertyWriter::new and PropertyWriter::value of a tuple of text slots
PropertyWriter_value_tuple(slots) ==
    /\ NoLineYet
    /\ Returned("tuple", slots,
                PropertyWriter_value_of("write", name(content_line(out), T),
                                        Value("tuple", <<T>>, T, slots)))
    /\ alive' = TRUE
    /\ UNCHANGED nwrites

\* PropertyWriter::new and PropertyWriter::value of a list of texts
PropertyWriter_value_list(items) ==
    /\ NoLineYet
    /\ Returned("list", items,
                PropertyWriter_value_of("write", name(content_line(out), T),
                                        Value("List", <<T>>, T, items)))
    /\ alive' = TRUE
    /\ UNCHANGED nwrites

NextSlots ==
    \/ \E slots \in Seqs(ValueSlotTexts, 1, MaxValueSlots) : PropertyWriter_value_tuple(slots)
    \/ \E items \in Seqs(ValueSlotTexts, 0, MaxValueSlots) : PropertyWriter_value_list(items)
    \/ PropertyWriter_end

SpecSlots == InitWriter /\ [][NextSlots]_vars

----------------------------------------------------------------------------
(* iCalendar objects written through ICalStreamWriter, ICalObjectWriter and
   EventWriter over a String *)

\* Property::NAME of Version and of ProdId, and the version ICalObjectWriter::new writes
VERSION == <<86, 69, 82, 83, 73, 79, 78>>
PRODID == <<80, 82, 79, 68, 73, 68>>
VERSION_2_0 == <<50, 46, 48>>

\* the product identifier of the tests, one with the characters TextWriter
\* escapes, and one that is folded
ProdIds == { <<45, 47, 47>>, <<112, SEMICOLON, COMMA>>, Rep(<<112>>, 70) }

\* Writer::simple_property of a property with a single Text value on a stream
\* that holds o
simple_property(o, n, s) ==
    drop(eol(PropertyWriter_value_of("write", name(content_line(o), n),
                                     Value("single", <<T>>, T, <<s>>))))

\* the drop of the ICalObjectWriter when ICalObjectWriter::new returns the
\* error of simple_property
object_dropped(l) == IF ComponentDropPanics(FALSE) THEN Failed(l, "panic") ELSE l

\* ICalObjectWriter::new, without its first simple_property
ICalObjectWriter_new_without_version(began, prod_id) ==
    IF ~Ok(began) THEN began
    ELSE IF Ok(simple_property(began.out, PRODID, prod_id))
    THEN simple_property(began.out, PRODID, prod_id)
    ELSE object_dropped(simple_property(began.out, PRODID, prod_id))

\* the second simple_property of ICalObjectWriter::new
ICalObjectWriter_new_prod_id(versioned, prod_id) ==
    IF Ok(versioned)
    THEN IF Ok(simple_property(versioned.out, PRODID, prod_id))
         THEN simple_property(versioned.out, PRODID, prod_id)
         ELSE object_dropped(simple_property(versioned.out, PRODID, prod_id))
    ELSE object_dropped(versioned)

\* ICalObjectWriter::new(inner, prod_id), began being what
\* ICalStreamWriter::component returned
ICalObjectWriter_new(began, prod_id) ==
    IF ~Ok(began) THEN began
    ELSE ICalObjectWriter_new_prod_id(simple_property(began.out, VERSION, VERSION_2_0),
                                      prod_id)

\* ICalStreamWriter::icalendar_object(prod_id) on a stream that holds o
icalendar_object(o, prod_id) ==
    ICalObjectWriter_new(simple_line(o, BEGIN_COMPONENT, VCALENDAR), prod_id)

\* the stream after ICalStreamWriter::icalendar_object returned l: the
\* ComponentWriter of the object is open if it returned Ok
ObjectCalled(prod_id, l) ==
    /\ ~panicked
    /\ nwrites < MaxStreamCalls
    /\ nwrites' = nwrites + 1
    /\ out' = l.out
    /\ rem_line_len' = l.rem
    /\ state' = l.state
    /\ passed_eol' = l.passed_eol
    /\ written' = l.written
    /\ panicked' = (l.res = "panic")
    /\ erred' = (erred \/ l.res = "err")
    /\ last' = [op |-> "icalendar_object", w |-> "stream", arg |-> prod_id,
                res |-> l.res, scan |-> 0]
    /\ log' = IF l.res = "ok"
              THEN Append(log, [op |-> "component", w |-> "stream", arg |-> VCALENDAR])
              ELSE log
    /\ UNCHANGED <<cur, first_value, alive, input, sinkFailed>>

\* ICalStreamWriter::icalendar_object: the stream writer is borrowed while an
\* object writer made from it is alive
ICalStreamWriter_icalendar_object(prod_id) ==
    /\ OpenComponents(Len(log)) = <<>>
    /\ ObjectCalled(prod_id, icalendar_object(out, prod_id))

\* ICalObjectWriter::simple_property and EventWriter::simple_property
TypedWriter_simple_property(n, s) ==
    /\ OpenComponents(Len(log)) # <<>>
    /\ Component_simple_property(n, s)

\* ICalObjectWriter::event
ICalObjectWriter_event ==
    /\ OpenComponents(Len(log)) # <<>>
    /\ Innermost = VCALENDAR
    /\ ComponentWriter_new(VEVENT)

\* ICalObjectWriter::end and EventWriter::end, and the drop of either writer
\* without end
NextCalendar ==
    \/ \E prod_id \in ProdIds : ICalStreamWriter_icalendar_object(prod_id)
    \/ \E s \in PropertyTexts : TypedWriter_simple_property(T, s)
    \/ ICalObjectWriter_event
    \/ ComponentWriter_end
    \/ ComponentWriter_drop

SpecCalendar == InitWriter /\ [][NextCalendar]_vars

----------------------------------------------------------------------------
(* Reading the output back *)

\* positions of the CR of each CRLF in the sink
Breaks(o) == {i \in 1..(Len(o) - 1) : o[i] = CR /\ o[i + 1] = LF}

\* positions of the CR of each continuation sequence CRLF SPACE
Folds(o) == {i \in Breaks(o) : i + 2 <= Len(o) /\ o[i + 2] = SPACE}

LineStarts(o) == {1} \cup {i + 2 : i \in Breaks(o)}

\* the first position after the physical line that starts at p
LineEnd(o, p) ==
    LET bs == {i \in Breaks(o) : i >= p}
    IN  IF bs = {} THEN Len(o) + 1 ELSE CHOOSE i \in bs : \A j \in bs : i <= j

LineLen(o, p) == LineEnd(o, p) - p

\* the offset into the unfolded text of the fold whose CR is at position i
FoldOffset(o, i) == (i - 1) - 3 * Cardinality({j \in Folds(o) : j < i})

\* the sink contents with every continuation sequence removed
Unfold(o) ==
    LET fs == Folds(o)
        offs == {FoldOffset(o, i) : i \in fs}
    IN  [n \in 1..(Len(o) - 3 * Cardinality(fs)) |->
            o[n + 3 * Cardinality({f \in fs : FoldOffset(o, f) < n})]]

\* offsets of the written text that lie between two codepoints
IsBoundary(t, n) == n = 0 \/ n >= Len(t) \/ ~IsContinuationByte(t[n + 1])

----------------------------------------------------------------------------
(* Claims *)

\* C1: when every fragment was written successfully, no physical line of the
\* FoldingWriter's output (the octets between consecutive CRLFs, the leading
\* SPACE of a continuation line included) is longer than 75 octets.
C1_LineLength ==
    ~sinkFailed => \A p \in LineStarts(out) : LineLen(out, p) <= 75

\* a closed writer whose output was folded and has a first line of 75 octets
C1_Witness ==
    /\ passed_eol /\ ~sinkFailed /\ ~panicked
    /\ Cardinality(Folds(out)) >= 2
    /\ LineLen(out, 1) = 75

\* C2: no continuation sequence is inserted between two octets of one
\* multi-byte codepoint: every fold is at a codepoint boundary of the written text.
C2_FoldAtBoundary ==
    ~sinkFailed =>
        \A i \in Folds(out) :
            /\ IsBoundary(written, FoldOffset(out, i))
            /\ i + 3 <= Len(out) => ~IsContinuationByte(out[i + 3])

\* a fold for which the backward scan stepped back over three continuation octets
C2_Witness ==
    /\ ~sinkFailed /\ last.res = "ok" /\ last.op = "write_str"
    /\ last.scan = 3
    /\ Folds(out) # {}

\* C3: removing every continuation sequence (and the CRLF of eol) from the
\* output gives back the concatenation of the written fragments.
C3_RoundTrip ==
    ~sinkFailed =>
        Unfold(out) = (IF passed_eol THEN written \o CRLF ELSE written)

\* a closed writer with a folded multi-byte text
C3_Witness ==
    /\ passed_eol /\ ~sinkFailed /\ ~panicked
    /\ Folds(out) # {}
    /\ \E i \in 1..Len(written) : written[i] >= 128

----------------------------------------------------------------------------
(* Claims about the content line *)

LineOps == {"name_writer", "param_name_writer", "param_value_unquoted_writer",
            "param_value_quoted_writer", "value_tuple_writer", "eol"}

ParamValueOps == {"param_value_unquoted_writer", "param_value_quoted_writer"}

\* the states in which the content-line state machine accepts an operation
AcceptedIn(op) ==
    CASE op = "name_writer" -> {"Initial"}
      [] op = "param_name_writer" -> {"AfterName", "AfterParamValue"}
      [] op \in ParamValueOps -> {"AfterParamName", "AfterParamValue"}
      [] op = "value_tuple_writer" -> {"AfterName", "AfterParamValue"}
      [] op = "eol" -> {"Value"}

\* C4: each ContentLine operation is accepted in its valid states and is a
\* fatal contract violation (a failed assertion) in every other state.
C4_ValidStates ==
    [][last'.op \in LineOps =>
          ((last'.res = "panic") <=> (state \notin AcceptedIn(last'.op)))]_vars

\* write_name is called a second time, in state AfterName, and panics
C4_Witness ==
    /\ last.op = "name_writer" /\ last.res = "panic"
    /\ state = "AfterName" /\ panicked

\* the octets a successful operation of the log contributes to the content
\* line, by the grammar name *(";" name "=" value *("," value)) ":" value CRLF
IsFirstValueOfParam(i) ==
    \E j \in 1..(i - 1) :
        /\ log[j].op = "param_name_writer"
        /\ \A m \in (j + 1)..(i - 1) : log[m].op \notin ParamValueOps

IsFirstSlot(i) == \A j \in 1..(i - 1) : log[j].op # "next_value_writer"

RECURSIVE EscapedText(_)
EscapedText(s) ==
    IF s = <<>> THEN <<>>
    ELSE (CASE Head(s) = BACKSLASH -> <<BACKSLASH, BACKSLASH>>
            [] Head(s) = LF -> <<BACKSLASH, LOWER_N>>
            [] Head(s) = SEMICOLON -> <<BACKSLASH, SEMICOLON>>
            [] Head(s) = COMMA -> <<BACKSLASH, COMMA>>
            [] OTHER -> <<Head(s)>>) \o EscapedText(Tail(s))

Piece(i) ==
    LET e == log[i]
    IN  CASE e.op = "param_name_writer" -> <<SEMICOLON>>
          [] e.op = "param_value_unquoted_writer" ->
                IF IsFirstValueOfParam(i) THEN <<EQUALS>> ELSE <<COMMA>>
          [] e.op = "param_value_quoted_writer" ->
                IF IsFirstValueOfParam(i) THEN <<EQUALS, DQUOTE>> ELSE <<COMMA, DQUOTE>>
          [] e.op = "close" -> <<DQUOTE>>
          [] e.op = "value_tuple_writer" -> <<COLON>>
          [] e.op = "next_value_writer" -> IF IsFirstSlot(i) THEN <<>> ELSE <<SEMICOLON>>
          [] e.op = "write_str" -> IF e.w = "text" THEN EscapedText(e.arg) ELSE e.arg
          [] e.op = "eol" -> CRLF
          [] OTHER -> <<>>

Rendered == Concat([i \in 1..Len(log) |-> Piece(i)])

\* the successful operations follow the grammar: one name, then parameters,
\* each name followed by its values, then one value, then the end of line
GrammarOrder ==
    /\ Len(log) >= 1 /\ log[1].op = "name_writer"
    /\ Cardinality({i \in 1..Len(log) : log[i].op = "name_writer"}) = 1
    /\ Cardinality({i \in 1..Len(log) : log[i].op = "value_tuple_writer"}) = 1
    /\ \A i \in 1..Len(log) : \A j \in 1..Len(log) :
          (log[i].op = "value_tuple_writer" /\ log[j].op \in ParamValueOps \cup {"param_name_writer"})
              => j < i
    /\ log[Len(log)].op = "eol"

\* C5: a content line that reaches Closed with every write succeeding has,
\* unfolded, the form NAME *(";" PARAM-NAME "=" PARAM-VALUE *("," PARAM-VALUE))
\* ":" VALUE CRLF, with one ';' per parameter name, one ':' and no other separator.
C5_ContentLineForm ==
    (passed_eol /\ ~erred /\ ~panicked) =>
        /\ GrammarOrder
        /\ Unfold(out) = Rendered

\* a closed, folded line with a name, a parameter with two values and a value
C5_Witness ==
    /\ passed_eol /\ ~erred /\ ~panicked
    /\ Folds(out) # {}
    /\ \E i \in 1..Len(log) : log[i].op = "param_value_unquoted_writer"
    /\ \E i \in 1..Len(log) : log[i].op = "param_value_quoted_writer"
    /\ \E i \in 1..Len(log) : log[i].op = "write_str" /\ log[i].w = "text"

\* C6: write_param_value writes '=' before the first value after a parameter
\* name and ',' before every later value of the parameter, quoted or not, and
\* leaves the line in state AfterParamValue.
C6_ParamValueSeparator ==
    [][(last'.op \in ParamValueOps /\ last'.res = "ok") =>
          /\ state' = "AfterParamValue"
          /\ Unfold(out') = Unfold(out)
                \o (IF state = "AfterParamName" THEN <<EQUALS>> ELSE <<COMMA>>)
                \o (IF last'.op = "param_value_quoted_writer" THEN <<DQUOTE>> ELSE <<>>)]_vars

\* a quoted value that follows an unquoted value of the same parameter
C6_Witness ==
    /\ last.op = "param_value_quoted_writer" /\ last.res = "ok"
    /\ state = "AfterParamValue"
    /\ \E i \in 1..(Len(log) - 1) :
          /\ log[i].op = "param_value_unquoted_writer"
          /\ \A j \in (i + 1)..(Len(log) - 1) : log[j].op \notin LineOps
    /\ Len(out) >= 2 /\ out[Len(out) - 1] = COMMA /\ out[Len(out)] = DQUOTE

\* C7: a FoldingWriter, or the ContentLine that owns it, that is discarded
\* before eol was called makes the drop assertion fail, in every state.
C7_DropBeforeEol ==
    (~alive /\ ~passed_eol) => panicked

\* a line dropped in state Value, after its value was begun
C7_Witness ==
    /\ last.op = "drop" /\ last.res = "panic"
    /\ state = "Value" /\ ~passed_eol /\ panicked

\* C8: after eol nothing more is written on the line: the CRLF of eol is the
\* last octet sequence the line emits.
C8_NothingAfterEol ==
    [][passed_eol => (out' = out /\ passed_eol')]_vars

\* a closed line whose output ends with CRLF
C8_Witness ==
    /\ passed_eol /\ ~panicked /\ ~alive
    /\ Len(out) >= 3 /\ out[Len(out) - 1] = CR /\ out[Len(out)] = LF

----------------------------------------------------------------------------
(* Claims about single writers *)

ForbiddenOctets == (0..8) \cup (10..31) \cup {127}

\* C9: FoldingWriter.write_str fails for every fragment that holds an octet
\* in 0x00-0x08, 0x0A-0x1F or 0x7F and accepts every fragment made of HTAB,
\* 0x20-0x7E and octets >= 0x80.
C9_ControlOctets ==
    last.op = "write_str" =>
        /\ (last.res = "err") <=> (\E i \in 1..Len(input) : input[i] \in ForbiddenOctets)
        /\ (last.res = "ok") <=>
              (\A i \in 1..Len(input) :
                  input[i] = 9 \/ (input[i] >= 32 /\ input[i] <= 126) \/ input[i] >= 128)
        /\ last.res = "ok" => out = input

\* a fragment with an HTAB is accepted
C9_Witness ==
    /\ last.op = "write_str" /\ last.res = "ok"
    /\ \E i \in 1..Len(input) : input[i] = 9
    /\ out = input

\* C10: the TextWriter's output is its input with '\' replaced by '\\',
\* newline by '\' 'n', ';' by '\;' and ',' by '\,', every other character
\* unchanged and in order.
C10_TextEscaping ==
    last.op = "text_write_str" => out = EscapedText(input)

\* the text newline ; , \ is written as \n \; \, \\
C10_Witness ==
    /\ last.op = "text_write_str"
    /\ input = <<LF, SEMICOLON, COMMA, BACKSLASH>>
    /\ out = <<BACKSLASH, LOWER_N, BACKSLASH, SEMICOLON, BACKSLASH, COMMA,
               BACKSLASH, BACKSLASH>>

----------------------------------------------------------------------------
(* Claims about the escaping of values *)

\* the unescape mapping of a TEXT value, read from left to right: \\ is a
\* backslash, \n and \N are a newline, \; is ';' and \, is ','
RECURSIVE UnescapedText(_)
UnescapedText(s) ==
    IF s = <<>> THEN <<>>
    ELSE IF Len(s) >= 2 /\ s[1] = BACKSLASH /\ s[2] \in {BACKSLASH, LOWER_N, 78, SEMICOLON, COMMA}
         THEN <<(IF s[2] \in {LOWER_N, 78} THEN LF ELSE s[2])>>
              \o UnescapedText(SubSeq(s, 3, Len(s)))
         ELSE <<Head(s)>> \o UnescapedText(Tail(s))

\* C11: TEXT escaping is invertible: unescaping the TextWriter's output gives
\* back the text that was written, for every text.
C11_EscapingInvertible ==
    last.op = "text_write_str" => UnescapedText(out) = input

\* a backslash followed by the letter n, then a newline: the output is \\n\n
C11_Witness ==
    /\ last.op = "text_write_str"
    /\ input = <<BACKSLASH, LOWER_N, LF>>
    /\ out = <<BACKSLASH, BACKSLASH, LOWER_N, BACKSLASH, LOWER_N>>

\* the value of a content line on the wire: what follows the first ':' that
\* is not inside a quoted string
ValueStart(w) ==
    {i \in 1..Len(w) :
        /\ w[i] = COLON
        /\ Cardinality({j \in 1..(i - 1) : w[j] = DQUOTE}) % 2 = 0}

ValueOnWire(w) ==
    LET i == CHOOSE i \in ValueStart(w) : \A j \in ValueStart(w) : i <= j
    IN  SubSeq(w, i + 1, Len(w))

\* the slots of a value, each escaped as TEXT, joined by the separator sep
RECURSIVE JoinEscaped(_, _)
JoinEscaped(slots, sep) ==
    IF slots = <<>> THEN <<>>
    ELSE IF Len(slots) = 1 THEN EscapedText(slots[1])
    ELSE EscapedText(slots[1]) \o sep \o JoinEscaped(Tail(slots), sep)

WireValue(v) ==
    JoinEscaped(v.slots, IF v.kind = "List" THEN <<COMMA>> ELSE <<SEMICOLON>>)

ValueOps == {"simple_line", "value", "simple_property"}

\* C12: every property value written through ContentLine::value,
\* PropertyWriter::value or simple_property passes through the TextWriter: on
\* the wire the value is the escaped text of its slots.
C12_ValuesEscaped ==
    (last.op \in ValueOps /\ last.res = "ok") =>
        /\ ValueStart(written) # {}
        /\ ValueOnWire(written) = WireValue(last.arg.value)

\* the part of a content line before its value: the name and the parameters
HeadOnWire(w) ==
    LET i == CHOOSE i \in ValueStart(w) : \A j \in ValueStart(w) : i <= j
    IN  SubSeq(w, 1, i - 1)

EndsWith(s, t) == Len(t) <= Len(s) /\ SubSeq(s, Len(s) - Len(t) + 1, Len(s)) = t

Contains(s, t) == \E i \in 1..(Len(s) - Len(t) + 1) : SubSeq(s, i, i + Len(t) - 1) = t

\* the selector parameter of the shape named a
ValueParam(a) == <<SEMICOLON>> \o VALUE \o <<EQUALS>> \o a

ChoiceKinds == {"Any2", "Any3", "List"}

IsChoiceWritten ==
    /\ last.op \in {"value", "simple_property"}
    /\ last.res = "ok"
    /\ last.arg.tree = "write"
    /\ last.arg.value.kind \in ChoiceKinds

\* C13: a two-way choice, a three-way choice and a list of a choice write
\* ;VALUE=<name of the active shape> right before the ':' when that name
\* differs from the name of the declared default shape, and no VALUE
\* parameter at all when the names are equal.
C13_ValueParamIffNotDefault ==
    IsChoiceWritten =>
        LET v == last.arg.value
            head == HeadOnWire(written)
        IN  /\ ValueStart(written) # {}
            /\ IF v.active # DefaultType(v.types)
               THEN EndsWith(head, ValueParam(v.active))
               ELSE ~Contains(head, ValueParam(<<>>))

C13_Witness ==
    /\ IsChoiceWritten
    /\ last.op = "value"
    /\ last.arg.value.kind = "List"
    /\ last.arg.value.types = <<T, U>>
    /\ last.arg.value.active = U
    /\ Len(last.arg.value.slots) = 2
    /\ EndsWith(HeadOnWire(written), ValueParam(U))

\* the pieces of a value on the wire between the separators sep that are not
\* escaped, from octet i on; piece is the piece begun, esc says that the octet
\* before i was an escaping backslash
RECURSIVE SplitRaw(_, _, _, _, _)
SplitRaw(w, sep, i, piece, esc) ==
    IF i > Len(w) THEN <<piece>>
    ELSE IF esc THEN SplitRaw(w, sep, i + 1, Append(piece, w[i]), FALSE)
    ELSE IF w[i] = BACKSLASH THEN SplitRaw(w, sep, i + 1, Append(piece, w[i]), TRUE)
    ELSE IF w[i] = sep THEN <<piece>> \o SplitRaw(w, sep, i + 1, <<>>, FALSE)
    ELSE SplitRaw(w, sep, i + 1, Append(piece, w[i]), FALSE)

\* the slots read back from a value on the wire
SlotsOnWire(w, sep) ==
    LET raw == SplitRaw(w, sep, 1, <<>>, FALSE)
    IN  [k \in 1..Len(raw) |-> UnescapedText(raw[k])]

IsWritten(kind) ==
    /\ last.op \in {"value", "simple_property"}
    /\ last.res = "ok"
    /\ last.arg.tree = "write"
    /\ last.arg.value.kind = kind

\* C14: a tuple of n slots, n from 1 to 4, begins the value once and writes
\* its slots in declared order with n-1 separators ';': read back, the value
\* on the wire is the n slots in order, with nothing before the first and
\* nothing after the last.
C14_TupleSlots ==
    IsWritten("tuple") =>
        /\ Cardinality(ValueStart(written)) = 1
        /\ SlotsOnWire(ValueOnWire(written), SEMICOLON) = last.arg.value.slots
        /\ ValueOnWire(written) = JoinEscaped(last.arg.value.slots, <<SEMICOLON>>)

C14_Witness ==
    /\ IsWritten("tuple")
    /\ last.arg.value.slots = << <<118>>, <<119, SEMICOLON>>, <<118>>, <<119, SEMICOLON>> >>
    /\ ValueOnWire(written) =
           <<118, SEMICOLON, 119, BACKSLASH, SEMICOLON, SEMICOLON, 118, SEMICOLON,
             119, BACKSLASH, SEMICOLON>>

\* C15: a list begins the value once and writes its items in iteration order
\* with ',' between adjacent items only; a list of zero items still writes the
\* ':' and an empty value, and leaves the line in state Value, so that the
\* end of the line succeeds.
C15_ListItems ==
    /\ IsWritten("List") =>
           LET items == last.arg.value.slots
           IN  /\ Cardinality(ValueStart(written)) = 1
               /\ ValueOnWire(written) = JoinEscaped(items, <<COMMA>>)
               /\ items # <<>> => SlotsOnWire(ValueOnWire(written), COMMA) = items
               /\ items = <<>> => written[Len(written)] = COLON
               /\ last.op = "value" => state = "Value" /\ eol(Line).res = "ok"
               /\ last.op = "simple_property" => out = written \o CRLF
    /\ ( /\ last.op = "simple_property"
         /\ last.arg.tree = "write"
         /\ last.arg.value.kind = "List"
         /\ last.arg.name = T ) => last.res = "ok"

C15_Witness ==
    /\ IsWritten("List")
    /\ last.op = "simple_property"
    /\ last.arg.value.slots = <<>>
    /\ last.arg.value.active = T
    /\ written = T \o <<COLON>>
    /\ out = T \o <<COLON>> \o CRLF

(* Claims about failures *)

FormatOps == {"simple_line", "PropertyWriter_new", "param", "simple_property"}

\* the call that made the step is one the contract of the line allows
LegalCall ==
    IF last'.op = "param" THEN alive /\ ~panicked /\ param_name_writer_valid(state)
    ELSE NoLineYet

IllegalName(arg) == ~NameWriter_write_str(arg.name).ok

IllegalValue(op, arg) ==
    CASE op = "param" ->
            \E k \in 1..Len(arg.items) :
                IF arg.quoted THEN ~QuotedStringWriter_write_str(arg.items[k]).ok
                ELSE ~ParamtextWriter_write_str(arg.items[k]).ok
      [] op \in {"simple_line", "simple_property"} ->
            \E k \in 1..Len(arg.value.slots) :
                \E i \in 1..Len(arg.value.slots[k]) :
                    arg.value.slots[k][i] \in ForbiddenOctets \ {LF}
      [] OTHER -> FALSE

\* C16: simple_line, PropertyWriter::new, param and simple_property, given a
\* name or a value with an illegal character, return the formatting error to
\* the caller, and no panic is raised as a consequence of that failure.
C16_FormatErrorReturned ==
    [][(/\ last'.op \in FormatOps
        /\ LegalCall
        /\ IllegalName(last'.arg) \/ IllegalValue(last'.op, last'.arg))
          => last'.res = "err" /\ ~panicked']_vars

(* Claims about the validating writers *)

\* what the write_str calls that returned Ok were given, in order
AcceptedFrags ==
    LET acc == SelectSeq(log, LAMBDA e : e.op = "write_str")
    IN  Concat([i \in 1..Len(acc) |-> acc[i].arg])

HasOctetIn(s, S) == \E i \in 1..Len(s) : s[i] \in S

IsWriteOn(kinds) == last.op = "write_str" /\ last.w \in kinds

\* C17: ParamtextWriter rejects every fragment containing DQUOTE, ';', ':',
\* ',' or a control octet other than HTAB, and forwards every other fragment,
\* non-ASCII text included, octet for octet.
C17_ParamtextCharset ==
    IsWriteOn({"paramtext"}) =>
        /\ last.res = "err" <=>
               HasOctetIn(last.arg, {DQUOTE, SEMICOLON, COLON, COMMA} \cup ForbiddenOctets)
        /\ last.res = "ok" => log[Len(log)].arg = last.arg
        /\ out = AcceptedFrags

C17_Witness ==
    /\ IsWriteOn({"paramtext"})
    /\ erred
    /\ last.res = "ok"
    /\ last.arg = <<240, 144, 128, 128>>
    /\ out = <<240, 144, 128, 128>>

\* C18: a QuotedStringWriter that is constructed, written to and closed emits
\* DQUOTE, the accepted fragments unmodified, DQUOTE; it rejects every
\* fragment containing DQUOTE or a control octet other than HTAB and accepts
\* ';', ':' and ',', so that the output holds exactly two DQUOTE octets, the
\* first and the last.
C18_QuotedString ==
    /\ IsWriteOn(QuotedKinds) =>
           /\ last.res = "err" <=> HasOctetIn(last.arg, {DQUOTE} \cup ForbiddenOctets)
           /\ out = <<DQUOTE>> \o AcceptedFrags
    /\ (last.op = "close" /\ last.w \in QuotedKinds) =>
           /\ out = <<DQUOTE>> \o AcceptedFrags \o <<DQUOTE>>
           /\ {i \in 1..Len(out) : out[i] = DQUOTE} = {1, Len(out)}
           /\ Len(out) >= 2

C18_Witness ==
    /\ last.op = "close"
    /\ last.w = "quoted"
    /\ last.res = "ok"
    /\ erred
    /\ input = <<DQUOTE>>
    /\ out = <<DQUOTE>> \o QText \o <<DQUOTE>>

\* C19: a QuotedStringWriter discarded without a successful close is a fatal
\* contract violation detected at drop; a writer on which close succeeded is
\* discarded without violation.
C19_UnclosedQuotedPanics ==
    /\ (last.op = "drop" /\ last.w \in QuotedKinds) => last.res = "panic" /\ panicked
    /\ (last.op = "close" /\ last.w \in QuotedKinds) => last.res = "ok" /\ ~panicked

NameOctets == (48..57) \cup (65..90) \cup (97..122) \cup {HYPHEN}

IsNameText(s) == \A i \in 1..Len(s) : s[i] \in NameOctets

\* C20: NameWriter forwards a fragment only if every octet is an ASCII
\* letter, an ASCII digit or '-', and fails with the formatting error
\* otherwise; the property name and every parameter name of a content line
\* are written through it.
C20_NameCharset ==
    /\ IsWriteOn({"name"}) =>
           /\ last.res = "ok" <=> IsNameText(last.arg)
           /\ last.res = "ok" => log[Len(log)].arg = last.arg
           /\ last.res \in {"ok", "err"}
           /\ out = AcceptedFrags
    /\ last.op = "name" =>
           /\ last.res = "ok" <=> IsNameText(last.arg.name)
           /\ last.res \in {"ok", "err"}
           /\ written = IF last.res = "ok" THEN last.arg.name ELSE <<>>
    /\ last.op = "param_name" =>
           /\ last.res = "ok" <=> IsNameText(last.arg.name)
           /\ last.res \in {"ok", "err"}
           /\ EndsWith(written, <<SEMICOLON>> \o
                                (IF last.res = "ok" THEN last.arg.name ELSE <<>>))

C20_Witness ==
    /\ last.op = "param_name"
    /\ last.res = "ok"
    /\ last.arg.name = <<97, HYPHEN, 97>>
    /\ written = T \o <<SEMICOLON, 97, HYPHEN, 97>>

(* Claims about folding *)

\* the physical lines of the sink contents, without their line breaks
PhysicalLines(o) ==
    LET starts == LineStarts(o)
        Nth(k) == CHOOSE p \in starts : Cardinality({q \in starts : q < p}) = k - 1
    IN  [k \in 1..Cardinality(starts) |-> SubSeq(o, Nth(k), LineEnd(o, Nth(k)) - 1)]

\* an ASCII text of n octets was written to a fresh writer, which was then ended
AsciiLineEnded(n) ==
    /\ Len(log) = 2
    /\ log[1].op = "write_str" /\ log[1].arg = Rep(A, n)
    /\ log[2].op = "eol"

\* C22: an ASCII text of n octets written to a fresh FoldingWriter and ended
\* with eol gives the text and CRLF with no fold when n <= 75; when n > 75 the
\* first physical line holds 75 octets and every later one a SPACE and at most
\* 74 octets of the text, exactly 74 on all but the last.
C22_AsciiFolding ==
    \A n \in 0..(MaxAsciiLen + 1) :
        AsciiLineEnded(n) =>
            LET ls == PhysicalLines(out)
                m == Len(ls) - 1        \* the line after the CRLF of eol is empty
            IN  /\ ls[Len(ls)] = <<>>
                /\ n <= 75 => out = Rep(A, n) \o CRLF
                /\ n > 75 =>
                     /\ ls[1] = Rep(A, 75)
                     /\ \A k \in 2..m :
                          /\ ls[k][1] = SPACE
                          /\ Len(ls[k]) >= 2 /\ Len(ls[k]) <= 75
                          /\ k < m => Len(ls[k]) = 75
                          /\ Tail(ls[k]) = Rep(A, Len(ls[k]) - 1)
                     /\ 75 + 74 * (m - 2) + Len(ls[m]) - 1 = n

\* 83 octets fold once into 75 and 8
C22_Witness ==
    /\ AsciiLineEnded(83)
    /\ out = Rep(A, 75) \o CONTINUATION \o Rep(A, 8) \o CRLF

\* the octets on the current physical line of the sink contents
CurrentLineLen(o) ==
    LET starts == LineStarts(o)
    IN  Len(o) + 1 - (CHOOSE p \in starts : \A q \in starts : q <= p)

\* C23: the line budget rem_line_len starts at 75, never goes below 0, and
\* after every successful write_str equals 75 minus the octets on the current
\* physical line (74 minus the text octets after a continuation sequence).
C23_Budget ==
    /\ last.op = "new" => rem_line_len = MAX_LINE_LENGTH
    /\ rem_line_len \in 0..MAX_LINE_LENGTH
    /\ last.op = "write_str" /\ last.res = "ok" =>
         rem_line_len = MAX_LINE_LENGTH - CurrentLineLen(out)

\* the fragments of the successful write_str calls, in order
WrittenFragments ==
    LET writes == SelectSeq(log, LAMBDA e : e.op = "write_str")
    IN  [i \in 1..Len(writes) |-> writes[i].arg]

\* the output of a fresh FoldingWriter given the text as one fragment
FoldedAtOnce(text) == write_str(text, MAX_LINE_LENGTH, <<>>, NoFail).out

\* C25: the output of the FoldingWriter depends only on the concatenation of
\* the written fragments: whatever the split into write_str calls, empty
\* fragments included, it is the output of writing the concatenation at once.
C25_SplitIndependent ==
    ~erred =>
        out = FoldedAtOnce(Concat(WrittenFragments))
                \o (IF passed_eol THEN CRLF ELSE <<>>)

\* three fragments, the second of which is folded away from the first
C25_Witness ==
    /\ ~erred
    /\ Len(WrittenFragments) = 3
    /\ WrittenFragments[1] = Rep(A, 73)
    /\ WrittenFragments[2] = U4
    /\ out = Rep(A, 73) \o CONTINUATION \o U4 \o U4

\* the octets of the codepoint that starts with the octet x
CodepointLen(x) == IF x < 192 THEN 1 ELSE IF x < 224 THEN 2 ELSE IF x < 240 THEN 3 ELSE 4

\* the lengths of the prefixes of b that fit the budget and end between two codepoints
FittingPrefixes(b, rem) == {n \in 0..rem : n <= Len(b) /\ IsBoundary(b, n)}

\* the step is an iteration of the folding loop
IsFold == cur = "loop" /\ last'.op = "fold"

\* C26: folding is greedy: a continuation is inserted only when the next
\* codepoint of the pending text does not fit in what is left of the budget,
\* and the prefix emitted before it is the largest prefix of the pending text
\* that fits the budget and ends on a codepoint boundary, the empty one when
\* the budget is 0 or smaller than the next codepoint.
C26_Greedy ==
    [][IsFold =>
        LET prefix == last'.arg
        IN  /\ out' = out \o prefix \o CONTINUATION
            /\ input = prefix \o input'
            /\ input' # <<>>
            /\ CodepointLen(input'[1]) > rem_line_len - Len(prefix)
            /\ Len(prefix) \in FittingPrefixes(input, rem_line_len)
            /\ \A n \in FittingPrefixes(input, rem_line_len) : n <= Len(prefix)
            /\ (rem_line_len = 0 \/ rem_line_len < CodepointLen(input[1])) => prefix = <<>>
    ]_vars

\* an empty prefix before a codepoint of 4 octets with a budget of 2
C26_Witness ==
    /\ last.op = "fold" /\ last.arg = <<>>
    /\ out = Rep(A, 73) \o CONTINUATION /\ input = Rep(U4, 19)

\* C27: the backward scan of an iteration of the folding loop starts at an
\* index inside the pending fragment, decrements it at most 3 times and never
\* below 0, for every budget 0..75 and every fragment longer than the budget.
C27_ScanBounded ==
    [][IsFold =>
        LET decrements == last'.scan
        IN  /\ rem_line_len \in 0..MAX_LINE_LENGTH
            /\ decrements \in 0..3
            /\ \A end \in (rem_line_len - decrements)..rem_line_len :
                 end >= 0 /\ end < Len(input)
    ]_vars

\* a budget of 3 before a codepoint of 4 octets: 3 decrements, down to index 0
C27_Witness ==
    /\ last.op = "fold" /\ last.scan = 3 /\ last.arg = <<>>
    /\ out = Rep(A, 72) \o CONTINUATION
    /\ input = Rep(U4, 19)

\* C28: write_str terminates for every fragment and every budget: every
\* iteration of the folding loop after the first removes at least one
\* codepoint from the pending text, also when the first one emitted an empty
\* prefix, and the call returns.
C28_Terminates ==
    /\ [][(last.op = "fold" /\ IsFold) =>
            /\ last'.arg # <<>>
            /\ Len(input') < Len(input)
            /\ Len(input) - Len(input') >= CodepointLen(input[1])
         ]_vars
    /\ (cur = "loop" ~> cur = "done")

\* 150 octets with a budget of 0: an empty prefix, two prefixes of 74 octets
\* and a rest of 2
C28_Witness ==
    /\ cur = "done" /\ last.op = "write_str" /\ last.arg = Rep(A, 2)
    /\ Len(log) = 5
    /\ log[1].arg = Rep(A, 75)
    /\ log[2].op = "fold" /\ log[2].arg = <<>>
    /\ log[3].op = "fold" /\ log[3].arg = Rep(A, 74)

\* the fragment holds a character that the writer does not allow
IllegalFor(kind, s) ==
    CASE kind = "folding" -> HasOctetIn(s, ForbiddenOctets)
      [] kind = "name" -> ~IsNameText(s)
      [] kind = "paramtext" ->
            HasOctetIn(s, {DQUOTE, SEMICOLON, COLON, COMMA} \cup ForbiddenOctets)
      [] kind \in QuotedKinds -> HasOctetIn(s, {DQUOTE} \cup ForbiddenOctets)

\* the step is a write_str on a FoldingWriter or a validating writer
IsWriteStr == nwrites' = nwrites + 1

\* the step closes the writer that was written to: close, or eol of the FoldingWriter
IsClose == last.op = "write_str" /\ last'.op \in {"close", "eol"}

\* C29: FoldingWriter, NameWriter, ParamtextWriter and QuotedStringWriter
\* reject a fragment with an illegal character as a whole: no octet of it
\* reaches the inner sink, the line budget is unchanged, and the writer stays
\* usable: a later valid write_str and the close succeed.
C29_AtomicRejection ==
    [][/\ IsWriteStr =>
            /\ last'.res = IF IllegalFor(cur, last'.arg) THEN "err" ELSE "ok"
            /\ last'.res = "err" =>
                 /\ out' = out
                 /\ rem_line_len' = rem_line_len
                 /\ cur' = cur /\ alive' = alive /\ ~panicked'
            /\ (erred /\ last'.res = "ok") =>
                 IF cur = "folding" THEN Unfold(out') = Unfold(out) \o last'.arg
                 ELSE out' = out \o last'.arg
       /\ (erred /\ IsClose) =>
            /\ last'.res = "ok" /\ ~panicked'
            /\ out' = out \o (IF cur = "folding" THEN CRLF ELSE <<DQUOTE>>)
    ]_vars

\* a FoldingWriter that rejected a fragment with a DEL in it, accepted the
\* next fragment and was ended
C29_Witness ==
    /\ last.op = "eol" /\ last.w = "folding" /\ last.res = "ok"
    /\ erred
    /\ input = <<97, DEL, 97>>
    /\ out = QText \o CRLF

(* Claims about the content line as a whole *)

LineParamValueOps == {"param_value_unquoted", "param_value_quoted"}

\* the octets a successful call on the line contributes to the content line
LinePiece(i) ==
    LET e == log[i]
        sep == IF log[i - 1].op = "param_name" THEN <<EQUALS>> ELSE <<COMMA>>
    IN  CASE e.op = "name" -> e.arg
          [] e.op = "param_name" -> <<SEMICOLON>> \o e.arg
          [] e.op = "param_value_unquoted" -> sep \o e.arg
          [] e.op = "param_value_quoted" -> sep \o <<DQUOTE>> \o e.arg \o <<DQUOTE>>
          [] e.op = "value" -> <<COLON>> \o EscapedText(e.arg)
          [] e.op = "eol" -> CRLF
          [] OTHER -> <<>>

LineRendered(n) == Concat([i \in 1..n |-> LinePiece(i)])

\* C21: every octet a ContentLine emits, the separators and the DQUOTEs
\* included, goes through its FoldingWriter: it is counted against the budget,
\* no physical line of the content line is longer than 75 octets, and the
\* output unfolded is the content line (a separator or a closing quote that
\* does not fit is on a continuation line).
C21_AllThroughFolding ==
    /\ \A p \in LineStarts(out) : LineLen(out, p) <= MAX_LINE_LENGTH
    /\ ~passed_eol => rem_line_len = MAX_LINE_LENGTH - CurrentLineLen(out)
    /\ (~erred /\ ~panicked) => Unfold(out) = LineRendered(Len(log))

\* the closing DQUOTE of a quoted parameter value is the 76th octet of the
\* content line and stands on a continuation line
C21_Witness ==
    /\ last.op = "param_value_quoted" /\ last.res = "ok"
    /\ out = Rep(T, 67) \o <<SEMICOLON, 80, EQUALS, DQUOTE>> \o QText
               \o CONTINUATION \o <<DQUOTE>>

\* the step is a call on the content line
IsLineCall == nwrites' = nwrites + 1

\* the offset in the content line of the first octet after the successful call i
OffsetAfter(i) == Len(LineRendered(i)) + 1

\* C30: from AfterParamName the only operation the line accepts is a
\* parameter value, so in every content line that is closed with every write
\* succeeding each parameter name is followed by '=' and a parameter value
\* before the next ';' or the ':'.
C30_ParamNameHasValue ==
    /\ [][(IsLineCall /\ state = "AfterParamName") =>
            ((last'.res # "panic") <=> (last'.op \in LineParamValueOps))]_vars
    /\ [](  (passed_eol /\ ~erred /\ ~panicked) =>
              \A i \in 1..Len(log) :
                  log[i].op = "param_name" =>
                      /\ i < Len(log) /\ log[i + 1].op \in LineParamValueOps
                      /\ Unfold(out)[OffsetAfter(i)] = EQUALS
                      /\ SubSeq(Unfold(out), OffsetAfter(i) + 1,
                                OffsetAfter(i + 1) - 1)
                           \in {log[i + 1].arg, <<DQUOTE>> \o log[i + 1].arg \o <<DQUOTE>>})

\* a closed line T;P=v:v
C30_Witness ==
    /\ passed_eol /\ ~erred /\ ~panicked
    /\ out = T \o <<SEMICOLON, 80, EQUALS, 118, COLON, 118>> \o CRLF

(* Claims about components *)

IsPrefix(p, s) == Len(p) <= Len(s) /\ SubSeq(s, 1, Len(p)) = p

\* the components that are open after the lines ls of a stream, read from the
\* BEGIN and END lines alone; << <<0>> >> if an END line does not name the
\* innermost open component
RECURSIVE OpenAfterLines(_, _)
OpenAfterLines(ls, open) ==
    IF ls = <<>> \/ open = << <<0>> >> THEN open
    ELSE LET line == Head(ls)
             begin == <<66, 69, 71, 73, 78, COLON>>
             end == <<69, 78, 68, COLON>>
         IN  IF IsPrefix(begin, line)
             THEN OpenAfterLines(Tail(ls), Append(open, SubSeq(line, 7, Len(line))))
             ELSE IF IsPrefix(end, line)
             THEN IF open # <<>> /\ open[Len(open)] = SubSeq(line, 5, Len(line))
                  THEN OpenAfterLines(Tail(ls), SubSeq(open, 1, Len(open) - 1))
                  ELSE << <<0>> >>
             ELSE OpenAfterLines(Tail(ls), open)

\* the step is a call on the writer
IsStreamCall == nwrites' = nwrites + 1

\* C24: a component writes BEGIN:<NAME> when it is created and END:<NAME>
\* with the same name on end(); the lines of the components and properties
\* written in it lie between the two, so that the BEGIN and END lines of a
\* stream nest and are balanced once every ComponentWriter is ended; a
\* ComponentWriter discarded without end() is a fatal contract violation.
C24_ComponentsNest ==
    /\ [][IsStreamCall =>
            /\ last'.op = "component" =>
                 /\ last'.res = "ok"
                 /\ out' = out \o <<66, 69, 71, 73, 78, COLON>> \o last'.arg \o CRLF
            /\ last'.op = "end" =>
                 /\ last'.res = "ok"
                 /\ last'.arg = Innermost
                 /\ out' = out \o <<69, 78, 68, COLON>> \o last'.arg \o CRLF
            /\ last'.op = "component_drop" => last'.res = "panic" /\ panicked'
            /\ IsPrefix(out, out')
         ]_vars
    /\ [](OpenAfterLines(PhysicalLines(out), <<>>) = OpenComponents(Len(log)))

\* the stream of test writer_event: an event in a calendar, both ended
C24_Witness ==
    /\ ~panicked
    /\ OpenComponents(Len(log)) = <<>>
    /\ out = <<66, 69, 71, 73, 78, COLON>> \o VCALENDAR \o CRLF
               \o T \o <<COLON, 118>> \o CRLF
               \o <<66, 69, 71, 73, 78, COLON>> \o VEVENT \o CRLF
               \o T \o <<COLON, 118>> \o CRLF
               \o <<69, 78, 68, COLON>> \o VEVENT \o CRLF
               \o <<69, 78, 68, COLON>> \o VCALENDAR \o CRLF

(* Claims about failures and the form of lines *)

\* C34: after a write_str that failed because the sink failed, the budget does
\* not overstate the room left on the current physical line, and the later
\* successful writes keep every physical line within 75 octets.
C34_BudgetAfterSinkFailure ==
    sinkFailed =>
        /\ ~passed_eol => rem_line_len <= MAX_LINE_LENGTH - CurrentLineLen(out)
        /\ \A p \in LineStarts(out) : LineLen(out, p) <= MAX_LINE_LENGTH

\* C32: a ContentLine operation that returns the formatting error leaves the
\* state of the line as it was before the call, so a line whose name was
\* rejected cannot be continued to Value and closed.
C32_ErrorKeepsState ==
    /\ [][(IsLineCall /\ last'.res = "err") => state' = state]_vars
    /\ []((passed_eol /\ ~panicked) => \E i \in 1..Len(log) : log[i].op = "name")

\* C33: every content line that reaches Closed starts with a non-empty name:
\* a line whose name writer was given nothing cannot be closed.
C33_NameNotEmpty ==
    (passed_eol /\ ~panicked) =>
        /\ out # <<>> /\ out[1] \in NameOctets
        /\ \E i \in 1..Len(log) : log[i].op = "name" /\ log[i].arg # <<>>

\* C31: after a successful PropertyWriter::param the content line is in state
\* AfterParamValue, so that a following param or value call is legal, for a
\* single item and for a set of any number of items, zero included.
C31_ParamLeavesAfterParamValue ==
    (last.op = "param" /\ last.res = "ok") =>
        /\ state = "AfterParamValue"
        /\ param_name_writer_valid(state) /\ value_writer_valid(state)

\* the occurrences of the octet c in s that no backslash escapes, s read from
\* left to right
RECURSIVE CountUnescaped(_, _)
CountUnescaped(s, c) ==
    IF s = <<>> THEN 0
    ELSE IF s[1] = BACKSLASH /\ Len(s) >= 2 THEN CountUnescaped(SubSeq(s, 3, Len(s)), c)
    ELSE (IF s[1] = c THEN 1 ELSE 0) + CountUnescaped(Tail(s), c)

\* the value part of the line named T, before the end of the line
ValuePart == SubSeq(Unfold(out), Len(T) + 2, Len(Unfold(out)))

\* C35: the separators between the slots of a value are not escaped and every
\* ';' and ',' of a slot's text is: a tuple of n slots holds exactly n-1
\* unescaped ';' and a list of k >= 1 items exactly k-1 unescaped ',', and no
\* other unescaped separator, whatever the texts are.
C35_SeparatorsCount ==
    /\ (last.op = "tuple" /\ last.res = "ok") =>
          /\ CountUnescaped(ValuePart, SEMICOLON) = Len(last.arg) - 1
          /\ CountUnescaped(ValuePart, COMMA) = 0
    /\ (last.op = "list" /\ last.res = "ok" /\ Len(last.arg) >= 1) =>
          /\ CountUnescaped(ValuePart, COMMA) = Len(last.arg) - 1
          /\ CountUnescaped(ValuePart, SEMICOLON) = 0

\* a list of a backslash, a comma and a semicolon: \\,\,,\;
C35_Witness ==
    /\ last.op = "list" /\ last.res = "ok"
    /\ last.arg = << <<BACKSLASH>>, <<COMMA>>, <<SEMICOLON>> >>
    /\ ValuePart = <<BACKSLASH, BACKSLASH, COMMA, BACKSLASH, COMMA, COMMA,
                     BACKSLASH, SEMICOLON>>

\* one parameter value as it stands on the line: between double quotes when
\* the item type is QUOTED, bare otherwise
OneParamValue(quoted, item) ==
    IF quoted THEN <<DQUOTE>> \o item \o <<DQUOTE>> ELSE item

\* the values of a parameter as they stand on the line, = before the first
\* and a comma before each later one
RECURSIVE ParamValuesOnLine(_, _, _)
ParamValuesOnLine(quoted, items, i) ==
    IF i > Len(items) THEN <<>>
    ELSE (IF i = 1 THEN <<EQUALS>> ELSE <<COMMA>>)
         \o OneParamValue(quoted, items[i])
         \o ParamValuesOnLine(quoted, items, i + 1)

\* C36: a PropertyWriter::param that returns Ok has put every item on the line
\* as exactly one parameter value: a quoted item between an opening and a
\* closing double quote, an unquoted item as bare paramtext, a single value
\* being a set of one item
C36_OneValuePerItem ==
    [][(last'.op = "param" /\ last'.res = "ok") =>
          Unfold(out') = Unfold(out) \o <<SEMICOLON>> \o last'.arg.name
                         \o ParamValuesOnLine(last'.arg.quoted, last'.arg.items, 1)]_vars

C36_Witness ==
    /\ last.op = "param" /\ last.res = "ok"
    /\ last.arg.quoted /\ last.arg.items = <<QText, QText>>
    /\ Unfold(out) = T \o <<SEMICOLON, 80, EQUALS, DQUOTE>> \o QText
                       \o <<DQUOTE, COMMA, DQUOTE>> \o QText \o <<DQUOTE>>

(* Claims about iCalendar objects *)

BeginCalendarLine == BEGIN_COMPONENT \o <<COLON>> \o VCALENDAR \o CRLF
VersionLine == VERSION \o <<COLON>> \o VERSION_2_0 \o CRLF
EndCalendarLine == END_COMPONENT \o <<COLON>> \o VCALENDAR \o CRLF

\* the positions of the sink contents where a content line starts
ContentLineStarts(o) ==
    {p \in 1..Len(o) : p = 1 \/ (p > 2 /\ o[p - 2] = CR /\ o[p - 1] = LF /\ o[p] # SPACE)}

\* the sink contents o hold the text from position p on
StartsAt(o, p, text) ==
    p >= 1 /\ p + Len(text) - 1 <= Len(o) /\ SubSeq(o, p, p + Len(text) - 1) = text

\* what a step has added to the sink
Appended == SubSeq(out', Len(out) + 1, Len(out'))

\* C37: creating an iCalendar object writer puts the lines BEGIN:VCALENDAR,
\* VERSION:2.0 and PRODID:<prod_id>, the product identifier written as text,
\* on the stream in this order, so that they come before every property and
\* component the caller writes in the object; end() of the object writer puts
\* END:VCALENDAR, which is the last line of the object.
C37_CalendarObjectFrame ==
    /\ [][IsStreamCall =>
            /\ IsPrefix(out, out')
            /\ last'.op = "icalendar_object" =>
                 /\ last'.res = "ok"
                 /\ Unfold(Appended) = BeginCalendarLine \o VersionLine
                                         \o PRODID \o <<COLON>> \o EscapedText(last'.arg) \o CRLF
            /\ (last'.op = "end" /\ last'.arg = VCALENDAR) =>
                 /\ last'.res = "ok"
                 /\ Appended = EndCalendarLine
         ]_vars
    /\ [](\A p \in ContentLineStarts(out) :
             StartsAt(out, p, BeginCalendarLine) =>
                /\ p = 1 \/ StartsAt(out, p - Len(EndCalendarLine), EndCalendarLine)
                /\ StartsAt(out, p, BeginCalendarLine \o VersionLine \o PRODID \o <<COLON>>))
    /\ []((out # <<>> /\ OpenComponents(Len(log)) = <<>> /\ ~panicked) =>
             StartsAt(out, Len(out) - Len(EndCalendarLine) - 1, CRLF \o EndCalendarLine))

\* the stream of test writer_event, with a product identifier that is escaped
C37_Witness ==
    /\ ~panicked
    /\ last.op = "end" /\ last.arg = VCALENDAR
    /\ out = BeginCalendarLine \o VersionLine
               \o PRODID \o <<COLON, 112, BACKSLASH, SEMICOLON, BACKSLASH, COMMA>> \o CRLF
               \o <<66, 69, 71, 73, 78, COLON>> \o VEVENT \o CRLF
               \o T \o <<COLON, 118>> \o CRLF
               \o <<69, 78, 68, COLON>> \o VEVENT \o CRLF
               \o EndCalendarLine

(* Claims about the lifetime of the writers *)

\* the content lines made on the stream so far: ComponentWriter::new,
\* ComponentWriter::end and Writer::simple_property each make one through
\* LineStream::content_line
ContentLinesMade ==
    Cardinality({i \in 1..Len(log) : log[i].op \in {"component", "end", "simple_property"}})

\* ContentLine::new makes the FoldingWriter of the line it makes
FoldingWritersMade == ContentLinesMade

\* C38: one FoldingWriter serves the whole output stream: it is made once for
\* the stream and serves all the content lines of the stream, while a
\* content-line writer is made and destroyed once for every line written.
C38_OneFoldingWriterPerStream ==
    ~panicked =>
        /\ ContentLinesMade = Cardinality(ContentLineStarts(out))
        /\ FoldingWritersMade <= 1

====
